---- MODULE Spec2Model ----
(***************************************************************************)
(* Model of the aggressive-flow monitor of src/index.js: the per-symbol    *)
(* trade window (SymbolState / TradeAggregator), the candidate filter      *)
(* (SignalEngine), the exhaustion state machine (ExhaustionTracker), the   *)
(* cooldown gate (CooldownManager), the minute-aligned dispatcher          *)
(* (AlertManager) and the message handler that drives them                 *)
(* (MultiWebSocketManager.handleMessage).                                  *)
(*                                                                         *)
(* Numbers.  JavaScript numbers are modelled by exact arithmetic: volumes  *)
(* and timestamps are integers (USD, ms); every quotient the code forms    *)
(* (dominance, priceChange, the average aggression, the thresholds 0.5,    *)
(* 0.1 and minPriceChange) is kept as a fraction [n, d] with d > 0 and     *)
(* compared exactly.                                                       *)
(***************************************************************************)
EXTENDS Integers, Sequences, FiniteSets, TLC

VARIABLES
  now,             \* Date.now(), ms
  runtimeConfig,   \* RuntimeConfig.symbolConfigs
  states,          \* TradeAggregator.states: symbol -> SymbolState
  waitingSymbols,  \* ExhaustionTracker.waitingSymbols
  lastAlerts,      \* CooldownManager.lastAlerts: key -> ms
  pendingAlerts,   \* AlertManager.pendingAlerts: set of keys
  timers,          \* the setTimeout callbacks sendAlert has scheduled
  ev,              \* history: the operation of the last step, its inputs and calls
  lastSent,        \* history: time of the last sendAlert call per reported key
  recorded,        \* history: time of the last recordAlert call per key, <<>> if none
  sinkCalls,       \* history: calls of telegram.sendMessage per key since the
                   \* last sendAlert that was scheduled for the key
  maxReconnects,      \* CONFIG.MAX_RECONNECTS, read from the environment at load
  symbols,            \* MultiWebSocketManager.symbols: the symbols enabled at start
  connections,        \* MultiWebSocketManager.connections: symbol -> state of its socket
  reconnectAttempts,  \* MultiWebSocketManager.reconnectAttempts: symbol -> count
  connectTimers,      \* the setTimeout callbacks that will call connectSymbol
  shutdown            \* BinanceFuturesFlowBot.shutdown: "running" before its call,
                      \* "stopping" from closeAll to process.exit, then "exited"

vars == <<now, runtimeConfig, states, waitingSymbols, lastAlerts,
          pendingAlerts, timers, ev, lastSent, recorded, sinkCalls,
          maxReconnects, symbols, connections, reconnectAttempts, connectTimers,
          shutdown>>

\* the state of MultiWebSocketManager, the ceiling it reads and the shutdown
wsVars == <<maxReconnects, symbols, connections, reconnectAttempts, connectTimers,
            shutdown>>

(***************************************************************************)
(* Values                                                                  *)
(***************************************************************************)
Null == [null |-> TRUE]          \* null / undefined where an object is expected
NoPrice == <<>>                  \* null where a price is expected; a price p is <<p>>

Frac(n, d) == [n |-> n, d |-> d]
\* n1/d1 < n2/d2 for n1, n2 >= 0 and d1, d2 > 0, by integer parts and then the
\* reciprocals of the remainders: exact, and no product is formed.  (\E x \in {e}
\* names the value of e, here and below.)
RECURSIVE PosLT(_, _, _, _)
PosLT(n1, d1, n2, d2) ==
  \E x \in {<<n1, d1, n2, d2>>} :
    IF x[1] \div x[2] # x[3] \div x[4] THEN x[1] \div x[2] < x[3] \div x[4]
    ELSE IF x[3] % x[4] = 0 THEN FALSE
    ELSE IF x[1] % x[2] = 0 THEN TRUE
    ELSE PosLT(x[4], x[3] % x[4], x[2], x[1] % x[2])

\* a < b
FracLT(a, b) ==
  \E x \in {a} : \E y \in {b} :
    IF x.n < 0 /\ y.n >= 0 THEN TRUE
    ELSE IF x.n >= 0 /\ y.n < 0 THEN FALSE
    ELSE IF x.n < 0 THEN PosLT(-y.n, y.d, -x.n, x.d)
    ELSE PosLT(x.n, x.d, y.n, y.d)
FracAbs(a) == Frac(IF a.n < 0 THEN -a.n ELSE a.n, a.d)
FracOfInt(i) == Frac(i, 1)
FracMul(a, b) == Frac(a.n * b.n, a.d * b.d)
FracGE(a, b) == ~FracLT(a, b)

Sides == {"buy", "sell"}

\* `${symbol}_${side}`: side holds no underscore, so the key determines both parts
Key(symbol, side) == <<symbol, side>>

(***************************************************************************)
(* CONFIG                                                                  *)
(***************************************************************************)
\* two of the nine entries of CONFIG.SYMBOL_CONFIGS
SYMBOL_CONFIGS ==
  [ADAUSDT |-> [minVolumeUSD |-> Frac(1000000, 1), minDominance |-> Frac(65, 1),
                minPriceChange |-> Frac(6, 10), cooldownMinutes |-> Frac(5, 1),
                enabled |-> TRUE],
   TAOUSDT |-> [minVolumeUSD |-> Frac(1500000, 1), minDominance |-> Frac(65, 1),
                minPriceChange |-> Frac(6, 10), cooldownMinutes |-> Frac(5, 1),
                enabled |-> TRUE]]

Symbols == DOMAIN SYMBOL_CONFIGS
UnknownSymbol == "SOLUSDT"       \* named in /help, absent from SYMBOL_CONFIGS
AllSymbols == Symbols \cup {UnknownSymbol}

WINDOW_SECONDS == 180
EXHAUSTION_AVG_CANDLES == 5
EXHAUSTION_THRESHOLD == Frac(5, 10)
EXHAUSTION_MAX_WAIT == 3
MAX_RECONNECTS == 10             \* parseInt(process.env.MAX_RECONNECTS) || 10
RECONNECT_DELAY == 5000          \* the factor of reconnectSymbol's setTimeout delay
NEUTRAL_DELTA == Frac(1, 10)     \* the literal 0.1 of isPriceSlowing

(***************************************************************************)
(* Bounds of the model                                                     *)
(***************************************************************************)
MaxMinutes == 9                  \* the clock stops after this many minutes
MaxTrades == 2                   \* a window holds at most this many trades

StartTimes == {60000}
Delays == {0, 30000, 180000}     \* ms between one event and the next

(***************************************************************************)
(* RuntimeConfig                                                           *)
(***************************************************************************)
\* get(symbol)
ConfigGet(cfgs, symbol) ==
  IF symbol \in DOMAIN cfgs THEN cfgs[symbol] ELSE Null

\* parseFloat(value) when it is not a number
NaN == [nan |-> TRUE]

\* set, had it tested minDominance against its lower limit only
ConfigSet_NoUpperLimit(cfgs, symbol, param, numValue) ==
  IF symbol \notin DOMAIN cfgs
  THEN [threw |-> TRUE, symbolConfigs |-> cfgs]
  ELSE IF param \notin {"minVolumeUSD", "minDominance", "minPriceChange", "cooldownMinutes"}
  THEN [threw |-> TRUE, symbolConfigs |-> cfgs]
  ELSE IF numValue = NaN
  THEN [threw |-> TRUE, symbolConfigs |-> cfgs]
  ELSE IF param = "minVolumeUSD" /\ FracLT(numValue, FracOfInt(0))
  THEN [threw |-> TRUE, symbolConfigs |-> cfgs]
  ELSE IF param = "minDominance" /\ FracLT(numValue, FracOfInt(50))
  THEN [threw |-> TRUE, symbolConfigs |-> cfgs]
  ELSE IF param = "minPriceChange" /\ FracLT(numValue, FracOfInt(0))
  THEN [threw |-> TRUE, symbolConfigs |-> cfgs]
  ELSE IF param = "cooldownMinutes" /\ FracLT(numValue, FracOfInt(0))
  THEN [threw |-> TRUE, symbolConfigs |-> cfgs]
  ELSE [threw |-> FALSE, symbolConfigs |-> [cfgs EXCEPT ![symbol][param] = numValue],
        result |-> [oldValue |-> cfgs[symbol][param], newValue |-> numValue]]

\* set(symbol, param, value), numValue being parseFloat(value): whether it threw,
\* and the configs it leaves
ConfigSet(cfgs, symbol, param, numValue) ==
  IF symbol \notin DOMAIN cfgs
  THEN [threw |-> TRUE, symbolConfigs |-> cfgs]
  ELSE IF param \notin {"minVolumeUSD", "minDominance", "minPriceChange", "cooldownMinutes"}
  THEN [threw |-> TRUE, symbolConfigs |-> cfgs]
  ELSE IF numValue = NaN
  THEN [threw |-> TRUE, symbolConfigs |-> cfgs]
  ELSE IF param = "minVolumeUSD" /\ FracLT(numValue, FracOfInt(0))
  THEN [threw |-> TRUE, symbolConfigs |-> cfgs]
  ELSE IF param = "minDominance" /\ (\/ FracLT(numValue, FracOfInt(50))
                                     \/ FracLT(FracOfInt(100), numValue))
  THEN [threw |-> TRUE, symbolConfigs |-> cfgs]
  ELSE IF param = "minPriceChange" /\ FracLT(numValue, FracOfInt(0))
  THEN [threw |-> TRUE, symbolConfigs |-> cfgs]
  ELSE IF param = "cooldownMinutes" /\ FracLT(numValue, FracOfInt(0))
  THEN [threw |-> TRUE, symbolConfigs |-> cfgs]
  ELSE [threw |-> FALSE, symbolConfigs |-> [cfgs EXCEPT ![symbol][param] = numValue],
        result |-> [oldValue |-> cfgs[symbol][param], newValue |-> numValue]]

(***************************************************************************)
(* parseFloat, on a text given as the sequence of its characters: an       *)
(* optional sign, then the longest run of digits with at most one point;   *)
(* whatever follows is ignored, and NaN is returned when no digit was      *)
(* read.  (Exponents, "Infinity" and leading blanks are not among the      *)
(* texts used here.)                                                       *)
(***************************************************************************)
DigitChars == <<"0", "1", "2", "3", "4", "5", "6", "7", "8", "9">>

IsDigit(c) == \E i \in DOMAIN DigitChars : DigitChars[i] = c

DigitValue(c) == (CHOOSE i \in DOMAIN DigitChars : DigitChars[i] = c) - 1

RECURSIVE LeadingDigits(_)
LeadingDigits(text) ==
  IF text = <<>> \/ ~IsDigit(text[1]) THEN <<>>
  ELSE <<text[1]>> \o LeadingDigits(Tail(text))

RECURSIVE DigitsValue(_)
DigitsValue(digits) ==
  IF digits = <<>> THEN 0
  ELSE DigitsValue(SubSeq(digits, 1, Len(digits) - 1)) * 10
         + DigitValue(digits[Len(digits)])

RECURSIVE PowerOfTen(_)
PowerOfTen(k) == IF k = 0 THEN 1 ELSE 10 * PowerOfTen(k - 1)

\* parseFloat(text)
ParseFloat(text) ==
  LET unsigned == IF text # <<>> /\ text[1] \in {"-", "+"} THEN Tail(text) ELSE text
      int == LeadingDigits(unsigned)
      rest == SubSeq(unsigned, Len(int) + 1, Len(unsigned))
      frac == IF rest # <<>> /\ rest[1] = "." THEN LeadingDigits(Tail(rest)) ELSE <<>>
  IN IF int = <<>> /\ frac = <<>> THEN NaN
     ELSE Frac((IF text[1] = "-" THEN -1 ELSE 1) * DigitsValue(int \o frac),
               PowerOfTen(Len(frac)))

\* set(symbol, param, value) on the text of the value
ConfigSetText(cfgs, symbol, param, value) ==
  ConfigSet(cfgs, symbol, param, ParseFloat(value))

\* enable(symbol): whether it threw, and the configs it leaves
ConfigEnable(cfgs, symbol) ==
  IF symbol \notin DOMAIN cfgs
  THEN [threw |-> TRUE, symbolConfigs |-> cfgs]
  ELSE [threw |-> FALSE, symbolConfigs |-> [cfgs EXCEPT ![symbol].enabled = TRUE]]

\* disable(symbol)
ConfigDisable(cfgs, symbol) ==
  IF symbol \notin DOMAIN cfgs
  THEN [threw |-> TRUE, symbolConfigs |-> cfgs]
  ELSE [threw |-> FALSE, symbolConfigs |-> [cfgs EXCEPT ![symbol].enabled = FALSE]]

(***************************************************************************)
(* SymbolState                                                             *)
(***************************************************************************)
NewSymbolState == [trades |-> <<>>, firstPrice |-> NoPrice, lastPrice |-> NoPrice]

RECURSIVE TrimFront(_, _)
TrimFront(trades, cutoff) ==
  IF trades = <<>> \/ trades[1].timestamp >= cutoff THEN trades
  ELSE TrimFront(Tail(trades), cutoff)

\* cleanup, had it shifted trades off the front until the first one in the window
Cleanup_TrimFront(st, currentTime) ==
  LET cutoff == currentTime - WINDOW_SECONDS * 1000
      kept == TrimFront(st.trades, cutoff)
  IN [st EXCEPT !.trades = kept,
                !.firstPrice = IF Len(kept) > 0 THEN <<kept[1].price>> ELSE NoPrice]

\* cleanup, had it left firstPrice as it was while trades remain
Cleanup_StaleFirstPrice(st, currentTime) ==
  LET cutoff == currentTime - WINDOW_SECONDS * 1000
      kept == SelectSeq(st.trades, LAMBDA t : t.timestamp >= cutoff)
  IN [st EXCEPT !.trades = kept,
                !.firstPrice = IF Len(kept) > 0 THEN @ ELSE NoPrice]

\* cleanup(currentTime)
Cleanup(st, currentTime) ==
  LET cutoff == currentTime - WINDOW_SECONDS * 1000
      kept == SelectSeq(st.trades, LAMBDA t : t.timestamp >= cutoff)
  IN [st EXCEPT !.trades = kept,
                !.firstPrice = IF Len(kept) > 0 THEN <<kept[1].price>> ELSE NoPrice]

\* addTrade(timestamp, price, quantity, isBuyerMaker)
SymbolAddTrade(st, timestamp, price, quantity, isBuyerMaker) ==
  LET volume == price * quantity
      trade == [timestamp |-> timestamp, price |-> price,
                buyVol |-> IF isBuyerMaker THEN 0 ELSE volume,
                sellVol |-> IF isBuyerMaker THEN volume ELSE 0]
      pushed == [st EXCEPT !.trades = Append(@, trade),
                           !.lastPrice = <<price>>,
                           !.firstPrice = IF @ = NoPrice THEN <<price>> ELSE @]
  IN Cleanup(pushed, timestamp)

\* cleanup(undefined): the cutoff is NaN and no comparison with NaN holds
CleanupNoTime(st) ==
  LET kept == SelectSeq(st.trades, LAMBDA t : FALSE)
  IN [st EXCEPT !.trades = kept,
                !.firstPrice = IF Len(kept) > 0 THEN <<kept[1].price>> ELSE NoPrice]

\* addTrade(undefined, price, quantity, isBuyerMaker)
SymbolAddTradeNoTime(st, price, quantity, isBuyerMaker) ==
  LET volume == price * quantity
      trade == [timestamp |-> Null, price |-> price,
                buyVol |-> IF isBuyerMaker THEN 0 ELSE volume,
                sellVol |-> IF isBuyerMaker THEN volume ELSE 0]
      pushed == [st EXCEPT !.trades = Append(@, trade),
                           !.lastPrice = <<price>>,
                           !.firstPrice = IF @ = NoPrice THEN <<price>> ELSE @]
  IN CleanupNoTime(pushed)

RECURSIVE SumField(_, _)
SumField(trades, f) ==
  IF trades = <<>> THEN 0 ELSE trades[1][f] + SumField(Tail(trades), f)

\* getStats, had it reported the buy share as the dominance
SymbolGetStats_BuyShare(st) ==
  IF Len(st.trades) = 0 THEN Null
  ELSE
    LET buyVolume == SumField(st.trades, "buyVol")
        sellVolume == SumField(st.trades, "sellVol")
        totalVolume == buyVolume + sellVolume
    IN IF totalVolume = 0 THEN Null
       ELSE
         LET buyDominance == Frac(buyVolume * 100, totalVolume)
             sellDominance == Frac(sellVolume * 100, totalVolume)
             first == st.firstPrice
             last == st.lastPrice
         IN [buyVolume |-> buyVolume,
             sellVolume |-> sellVolume,
             totalVolume |-> totalVolume,
             dominantSide |-> IF buyVolume > sellVolume THEN "buy" ELSE "sell",
             dominance |-> buyDominance,
             priceChange |-> IF first # NoPrice /\ first[1] # 0
                             THEN Frac((last[1] - first[1]) * 100, first[1])
                             ELSE Frac(0, 1),
             duration |-> Frac(st.trades[Len(st.trades)].timestamp
                                 - st.trades[1].timestamp, 1000),
             tradeCount |-> Len(st.trades),
             lastPrice |-> last[1]]

\* getStats, had it compared with >= for the dominant side
SymbolGetStats_TieBuy(st) ==
  IF Len(st.trades) = 0 THEN Null
  ELSE
    LET buyVolume == SumField(st.trades, "buyVol")
        sellVolume == SumField(st.trades, "sellVol")
        totalVolume == buyVolume + sellVolume
    IN IF totalVolume = 0 THEN Null
       ELSE
         LET buyDominance == Frac(buyVolume * 100, totalVolume)
             sellDominance == Frac(sellVolume * 100, totalVolume)
             first == st.firstPrice
             last == st.lastPrice
         IN [buyVolume |-> buyVolume,
             sellVolume |-> sellVolume,
             totalVolume |-> totalVolume,
             dominantSide |-> IF buyVolume >= sellVolume THEN "buy" ELSE "sell",
             dominance |-> IF FracLT(buyDominance, sellDominance)
                           THEN sellDominance ELSE buyDominance,
             priceChange |-> IF first # NoPrice /\ first[1] # 0
                             THEN Frac((last[1] - first[1]) * 100, first[1])
                             ELSE Frac(0, 1),
             duration |-> Frac(st.trades[Len(st.trades)].timestamp
                                 - st.trades[1].timestamp, 1000),
             tradeCount |-> Len(st.trades),
             lastPrice |-> last[1]]

\* getStats()
SymbolGetStats(st) ==
  IF Len(st.trades) = 0 THEN Null
  ELSE
    LET buyVolume == SumField(st.trades, "buyVol")
        sellVolume == SumField(st.trades, "sellVol")
        totalVolume == buyVolume + sellVolume
    IN IF totalVolume = 0 THEN Null
       ELSE
         LET buyDominance == Frac(buyVolume * 100, totalVolume)
             sellDominance == Frac(sellVolume * 100, totalVolume)
             first == st.firstPrice
             last == st.lastPrice
         IN [buyVolume |-> buyVolume,
             sellVolume |-> sellVolume,
             totalVolume |-> totalVolume,
             dominantSide |-> IF buyVolume > sellVolume THEN "buy" ELSE "sell",
             dominance |-> IF FracLT(buyDominance, sellDominance)
                           THEN sellDominance ELSE buyDominance,
             priceChange |-> IF first # NoPrice /\ first[1] # 0
                             THEN Frac((last[1] - first[1]) * 100, first[1])
                             ELSE Frac(0, 1),
             duration |-> Frac(st.trades[Len(st.trades)].timestamp
                                 - st.trades[1].timestamp, 1000),
             tradeCount |-> Len(st.trades),
             lastPrice |-> last[1]]

\* reset()
SymbolReset(st) == NewSymbolState

(***************************************************************************)
(* TradeAggregator                                                         *)
(***************************************************************************)
NoState == [absent |-> TRUE]     \* states.get(symbol) === undefined

AggAddTrade(sts, symbol, timestamp, price, quantity, isBuyerMaker) ==
  LET st == IF sts[symbol] = NoState THEN NewSymbolState ELSE sts[symbol]
  IN [sts EXCEPT ![symbol] =
        SymbolAddTrade(st, timestamp, price, quantity, isBuyerMaker)]

\* getStats(symbol), had it wanted two trades in the window
AggGetStats_NeedsTwo(sts, symbol) ==
  IF sts[symbol] = NoState THEN Null
  ELSE IF Len(sts[symbol].trades) < 2 THEN Null
  ELSE SymbolGetStats(sts[symbol])

AggGetStats(sts, symbol) ==
  IF sts[symbol] = NoState THEN Null ELSE SymbolGetStats(sts[symbol])

AggAddTradeNoTime(sts, symbol, price, quantity, isBuyerMaker) ==
  LET st == IF sts[symbol] = NoState THEN NewSymbolState ELSE sts[symbol]
  IN [sts EXCEPT ![symbol] = SymbolAddTradeNoTime(st, price, quantity, isBuyerMaker)]

AggResetSymbol(sts, symbol) ==
  IF sts[symbol] = NoState THEN sts ELSE [sts EXCEPT ![symbol] = SymbolReset(@)]

(***************************************************************************)
(* SignalEngine                                                            *)
(***************************************************************************)
\* shouldAlert without its direction alignment
ShouldAlert_NoAlignment(cfgs, symbol, stats) ==
  IF stats = Null THEN FALSE
  ELSE
    LET config == ConfigGet(cfgs, symbol)
    IN IF config = Null THEN FALSE
       ELSE IF ~config.enabled THEN FALSE
       ELSE IF FracLT(FracOfInt(stats.totalVolume), config.minVolumeUSD) THEN FALSE
       ELSE IF FracLT(stats.dominance, config.minDominance) THEN FALSE
       ELSE IF FracLT(FracAbs(stats.priceChange), config.minPriceChange) THEN FALSE
       ELSE TRUE

\* shouldAlert without its test of config.enabled
ShouldAlert_IgnoresEnabled(cfgs, symbol, stats) ==
  IF stats = Null THEN FALSE
  ELSE
    LET config == ConfigGet(cfgs, symbol)
    IN IF config = Null THEN FALSE
       ELSE IF FracLT(FracOfInt(stats.totalVolume), config.minVolumeUSD) THEN FALSE
       ELSE IF FracLT(stats.dominance, config.minDominance) THEN FALSE
       ELSE IF FracLT(FracAbs(stats.priceChange), config.minPriceChange) THEN FALSE
       ELSE IF stats.dominantSide = "buy" /\ stats.priceChange.n < 0 THEN FALSE
       ELSE IF stats.dominantSide = "sell" /\ stats.priceChange.n > 0 THEN FALSE
       ELSE TRUE

\* shouldAlert(symbol, stats)
ShouldAlert(cfgs, symbol, stats) ==
  IF stats = Null THEN FALSE
  ELSE
    LET config == ConfigGet(cfgs, symbol)
    IN IF config = Null THEN FALSE
       ELSE IF ~config.enabled THEN FALSE
       ELSE IF FracLT(FracOfInt(stats.totalVolume), config.minVolumeUSD) THEN FALSE
       ELSE IF FracLT(stats.dominance, config.minDominance) THEN FALSE
       ELSE IF FracLT(FracAbs(stats.priceChange), config.minPriceChange) THEN FALSE
       ELSE IF stats.dominantSide = "buy" /\ stats.priceChange.n < 0 THEN FALSE
       ELSE IF stats.dominantSide = "sell" /\ stats.priceChange.n > 0 THEN FALSE
       ELSE TRUE

\* interpretSignal(stats); the emoji and the description are display text
InterpretSignal(stats) ==
  IF stats.dominantSide = "buy"
  THEN [type |-> "SHORT_SQUEEZE", label |-> "SHORT SQUEEZE", direction |-> "BUY"]
  ELSE [type |-> "LONG_LIQUIDATION", label |-> "LONG LIQUIDATION", direction |-> "SELL"]

(***************************************************************************)
(* ExhaustionTracker                                                       *)
(***************************************************************************)
\* isWaiting(symbol)
IsWaiting(ws, symbol) == ws[symbol] # Null

\* calculateAggression(stats)
CalculateAggression(stats) ==
  IF stats.dominantSide = "buy" THEN stats.buyVolume ELSE stats.sellVolume

\* startWaiting(symbol, stats).  waitStartTime and the samples' timestamp are
\* written and never read: they are left out of the record.
StartWaiting(ws, symbol, stats) ==
  [ws EXCEPT ![symbol] =
     [pendingStats |-> stats,
      candleCount |-> 0,
      aggressionHistory |->
        <<[aggression |-> CalculateAggression(stats),
           priceChange |-> FracAbs(stats.priceChange)]>>]]

\* updateAggression, had it left candleCount as it was
UpdateAggression_NoCount(ws, symbol, stats) ==
  IF ws[symbol] = Null THEN ws
  ELSE
    LET pushed == Append(ws[symbol].aggressionHistory,
                         [aggression |-> CalculateAggression(stats),
                          priceChange |-> FracAbs(stats.priceChange)])
        trimmed == IF Len(pushed) > EXHAUSTION_AVG_CANDLES + 1
                   THEN Tail(pushed) ELSE pushed
    IN [ws EXCEPT ![symbol].aggressionHistory = trimmed]

\* updateAggression(symbol, stats)
UpdateAggression(ws, symbol, stats) ==
  IF ws[symbol] = Null THEN ws
  ELSE
    LET pushed == Append(ws[symbol].aggressionHistory,
                         [aggression |-> CalculateAggression(stats),
                          priceChange |-> FracAbs(stats.priceChange)])
        trimmed == IF Len(pushed) > EXHAUSTION_AVG_CANDLES + 1
                   THEN Tail(pushed) ELSE pushed
    IN [ws EXCEPT ![symbol].aggressionHistory = trimmed,
                  ![symbol].candleCount = @ + 1]

\* cancelWaiting(symbol)
CancelWaiting(ws, symbol) == [ws EXCEPT ![symbol] = Null]

\* getPendingStats(symbol)
GetPendingStats(ws, symbol) ==
  IF ws[symbol] = Null THEN Null ELSE ws[symbol].pendingStats

RECURSIVE SumAggression(_)
SumAggression(history) ==
  IF history = <<>> THEN 0
  ELSE history[1].aggression + SumAggression(Tail(history))

\* calculateAvgAggression(history)
CalculateAvgAggression(history) ==
  IF Len(history) = 0 THEN Frac(0, 1)
  ELSE Frac(SumAggression(history), Len(history))

\* history.slice(-3)
Last3(history) == SubSeq(history, Len(history) - 2, Len(history))

\* isVolumeDecreasing(history)
IsVolumeDecreasing(history) ==
  IF Len(history) < 3 THEN FALSE
  ELSE LET last3 == Last3(history)
       IN /\ last3[3].aggression < last3[2].aggression
          /\ last3[2].aggression < last3[1].aggression

\* isPriceSlowing(history)
IsPriceSlowing(history) ==
  IF Len(history) < 3 THEN FALSE
  ELSE LET last3 == Last3(history)
           delta1 == last3[2].priceChange
           delta2 == last3[3].priceChange
       IN FracLT(delta2, delta1) \/ FracLT(delta2, NEUTRAL_DELTA)

\* currentAggression < CONFIG.EXHAUSTION_THRESHOLD * avgAggression
AggressionDecreased(history, stats) ==
  LET currentAggression == CalculateAggression(stats)
      avgAggression == CalculateAvgAggression(SubSeq(history, 1, Len(history) - 1))
  IN FracLT(FracOfInt(currentAggression),
            FracMul(EXHAUSTION_THRESHOLD, avgAggression))

\* checkExhaustion, had it answered on the aggression test alone, whatever the
\* number of samples
CheckExhaustion_AggressionOnly(ws, symbol, stats) ==
  LET waiting == ws[symbol]
  IN IF waiting = Null
     THEN [confirmed |-> FALSE, reason |-> "not_waiting", waitingSymbols |-> ws]
     ELSE IF waiting.candleCount >= EXHAUSTION_MAX_WAIT
     THEN [confirmed |-> FALSE, reason |-> "timeout",
           waitingSymbols |-> CancelWaiting(ws, symbol)]
     ELSE IF AggressionDecreased(waiting.aggressionHistory, stats)
     THEN [confirmed |-> TRUE, reason |-> "exhaustion_detected", waitingSymbols |-> ws]
     ELSE [confirmed |-> FALSE, reason |-> "waiting", waitingSymbols |-> ws]

\* checkExhaustion, had any one of the three conditions sufficed
CheckExhaustion_AnyCondition(ws, symbol, stats) ==
  LET waiting == ws[symbol]
  IN IF waiting = Null
     THEN [confirmed |-> FALSE, reason |-> "not_waiting", waitingSymbols |-> ws]
     ELSE IF waiting.candleCount >= EXHAUSTION_MAX_WAIT
     THEN [confirmed |-> FALSE, reason |-> "timeout",
           waitingSymbols |-> CancelWaiting(ws, symbol)]
     ELSE
       LET history == waiting.aggressionHistory
       IN IF Len(history) < 3
          THEN [confirmed |-> FALSE, reason |-> "insufficient_data",
                waitingSymbols |-> ws]
          ELSE IF \/ AggressionDecreased(history, stats)
                  \/ IsVolumeDecreasing(history)
                  \/ IsPriceSlowing(history)
          THEN [confirmed |-> TRUE, reason |-> "exhaustion_detected",
                waitingSymbols |-> ws]
          ELSE [confirmed |-> FALSE, reason |-> "waiting", waitingSymbols |-> ws]

\* checkExhaustion(symbol, stats): the returned object and the map it leaves
CheckExhaustion(ws, symbol, stats) ==
  LET waiting == ws[symbol]
  IN IF waiting = Null
     THEN [confirmed |-> FALSE, reason |-> "not_waiting", waitingSymbols |-> ws]
     ELSE IF waiting.candleCount >= EXHAUSTION_MAX_WAIT
     THEN [confirmed |-> FALSE, reason |-> "timeout",
           waitingSymbols |-> CancelWaiting(ws, symbol)]
     ELSE
       LET history == waiting.aggressionHistory
       IN IF Len(history) < 3
          THEN [confirmed |-> FALSE, reason |-> "insufficient_data",
                waitingSymbols |-> ws]
          ELSE
            LET aggressionDecreased == AggressionDecreased(history, stats)
                volumeDecreasing == IsVolumeDecreasing(history)
                priceSlowing == IsPriceSlowing(history)
            IN IF aggressionDecreased /\ volumeDecreasing /\ priceSlowing
               THEN [confirmed |-> TRUE, reason |-> "exhaustion_detected",
                     waitingSymbols |-> ws]
               ELSE [confirmed |-> FALSE, reason |-> "waiting",
                     waitingSymbols |-> ws]

(***************************************************************************)
(* CooldownManager                                                         *)
(***************************************************************************)
\* canAlert, had it compared with > in place of >=
CanAlert_Strict(cfgs, la, symbol, stats, t) ==
  LET config == ConfigGet(cfgs, symbol)
      key == Key(symbol, stats.dominantSide)
  IN IF config = Null THEN FALSE
     ELSE IF key \notin DOMAIN la THEN TRUE
     ELSE IF la[key] = 0 THEN TRUE
     ELSE LET cooldownMs == FracMul(config.cooldownMinutes, FracOfInt(60 * 1000))
              elapsed == t - la[key]
          IN FracLT(cooldownMs, FracOfInt(elapsed))

\* canAlert, had it let an alert through while the cooldown runs
CanAlert_Inverted(cfgs, la, symbol, stats, t) ==
  LET config == ConfigGet(cfgs, symbol)
      key == Key(symbol, stats.dominantSide)
  IN IF config = Null THEN FALSE
     ELSE IF key \notin DOMAIN la THEN TRUE
     ELSE IF la[key] = 0 THEN TRUE
     ELSE LET cooldownMs == FracMul(config.cooldownMinutes, FracOfInt(60 * 1000))
              elapsed == t - la[key]
          IN FracGE(cooldownMs, FracOfInt(elapsed))

\* canAlert(symbol, stats)
CanAlert(cfgs, la, symbol, stats, t) ==
  LET config == ConfigGet(cfgs, symbol)
      key == Key(symbol, stats.dominantSide)
  IN IF config = Null THEN FALSE
     ELSE IF key \notin DOMAIN la THEN TRUE
     ELSE IF la[key] = 0 THEN TRUE
     ELSE LET cooldownMs == FracMul(config.cooldownMinutes, FracOfInt(60 * 1000))
              elapsed == t - la[key]
          IN FracGE(FracOfInt(elapsed), cooldownMs)

\* recordAlert, had it stamped both sides of the symbol
RecordAlert_BothSides(la, symbol, stats, t) ==
  [k \in {Key(symbol, side) : side \in Sides} |-> t] @@ la

\* recordAlert(symbol, stats)
RecordAlert(la, symbol, stats, t) ==
  (Key(symbol, stats.dominantSide) :> t) @@ la

(***************************************************************************)
(* AlertManager                                                            *)
(***************************************************************************)
\* the boundary after t, had the code taken Math.floor(now / 60000) + 1
NextMinute_NextBoundary(t) == (t \div 60000 + 1) * 60000

\* Math.ceil(now / 60000) * 60000
NextMinute(t) == ((t + 59999) \div 60000) * 60000

\* sendAlert without its pendingAlerts.has(key) test
SendAlert_NoPendingCheck(pa, tm, symbol, stats, interpretation, t) ==
  [pendingAlerts |-> pa \cup {Key(symbol, stats.dominantSide)},
   timers |-> tm \cup {[key |-> Key(symbol, stats.dominantSide), symbol |-> symbol,
                        stats |-> stats, interpretation |-> interpretation,
                        fireAt |-> NextMinute(t)]}]

\* sendAlert(symbol, stats, interpretation): the pending set and the timers after it
SendAlert(pa, tm, symbol, stats, interpretation, t) ==
  LET key == Key(symbol, stats.dominantSide)
  IN IF key \in pa
     THEN [pendingAlerts |-> pa, timers |-> tm]
     ELSE [pendingAlerts |-> pa \cup {key},
           timers |-> tm \cup {[key |-> key, symbol |-> symbol, stats |-> stats,
                                interpretation |-> interpretation,
                                fireAt |-> NextMinute(t)]}]

(***************************************************************************)
(* MultiWebSocketManager.handleMessage                                     *)
(*                                                                         *)
(* A handler's effect is a record of the components it leaves, of the      *)
(* value checkExhaustion returned to it (Null when it was not called) and  *)
(* of the sendAlert and recordAlert calls it made.                         *)
(***************************************************************************)
\* the confirmed branch, had it reported the stats of the confirming tick
OnConfirmed_LiveStats(base, ws, symbol, stats, t) ==
  IF CanAlert(runtimeConfig, lastAlerts, symbol, stats, t)
  THEN
    LET interpretation == [exhaustion |-> TRUE] @@ InterpretSignal(stats)
        sa == SendAlert(pendingAlerts, timers, symbol, stats, interpretation, t)
    IN [base EXCEPT
          !.sends = <<[symbol |-> symbol, stats |-> stats,
                       interpretation |-> interpretation]>>,
          !.pendingAlerts = sa.pendingAlerts,
          !.timers = sa.timers,
          !.lastAlerts = RecordAlert(lastAlerts, symbol, stats, t),
          !.records = <<[symbol |-> symbol, stats |-> stats]>>,
          !.waitingSymbols = CancelWaiting(ws, symbol),
          !.states = AggResetSymbol(base.states, symbol)]
  ELSE [base EXCEPT !.waitingSymbols = CancelWaiting(ws, symbol)]

\* the confirmed branch, had it reset the window also when canAlert is false
OnConfirmed_ResetWhenCooling(base, ws, symbol, stats, t) ==
  IF CanAlert(runtimeConfig, lastAlerts, symbol, stats, t)
  THEN
    LET pendingStats == GetPendingStats(ws, symbol)
        interpretation == [exhaustion |-> TRUE] @@ InterpretSignal(pendingStats)
        sa == SendAlert(pendingAlerts, timers, symbol, pendingStats,
                        interpretation, t)
    IN [base EXCEPT
          !.sends = <<[symbol |-> symbol, stats |-> pendingStats,
                       interpretation |-> interpretation]>>,
          !.pendingAlerts = sa.pendingAlerts,
          !.timers = sa.timers,
          !.lastAlerts = RecordAlert(lastAlerts, symbol, stats, t),
          !.records = <<[symbol |-> symbol, stats |-> stats]>>,
          !.waitingSymbols = CancelWaiting(ws, symbol),
          !.states = AggResetSymbol(base.states, symbol)]
  ELSE [base EXCEPT !.waitingSymbols = CancelWaiting(ws, symbol),
                    !.states = AggResetSymbol(base.states, symbol)]

\* the confirmed branch, had it left the window in place after the alert
OnConfirmed_NoReset(base, ws, symbol, stats, t) ==
  IF CanAlert(runtimeConfig, lastAlerts, symbol, stats, t)
  THEN
    LET pendingStats == GetPendingStats(ws, symbol)
        interpretation == [exhaustion |-> TRUE] @@ InterpretSignal(pendingStats)
        sa == SendAlert(pendingAlerts, timers, symbol, pendingStats,
                        interpretation, t)
    IN [base EXCEPT
          !.sends = <<[symbol |-> symbol, stats |-> pendingStats,
                       interpretation |-> interpretation]>>,
          !.pendingAlerts = sa.pendingAlerts,
          !.timers = sa.timers,
          !.lastAlerts = RecordAlert(lastAlerts, symbol, stats, t),
          !.records = <<[symbol |-> symbol, stats |-> stats]>>,
          !.waitingSymbols = CancelWaiting(ws, symbol)]
  ELSE [base EXCEPT !.waitingSymbols = CancelWaiting(ws, symbol)]

\* the confirmed branch
OnConfirmed(base, ws, symbol, stats, t) ==
  IF CanAlert(runtimeConfig, lastAlerts, symbol, stats, t)
  THEN
    LET pendingStats == GetPendingStats(ws, symbol)
        interpretation == [exhaustion |-> TRUE] @@ InterpretSignal(pendingStats)
        sa == SendAlert(pendingAlerts, timers, symbol, pendingStats,
                        interpretation, t)
    IN [base EXCEPT
          !.sends = <<[symbol |-> symbol, stats |-> pendingStats,
                       interpretation |-> interpretation]>>,
          !.pendingAlerts = sa.pendingAlerts,
          !.timers = sa.timers,
          !.lastAlerts = RecordAlert(lastAlerts, symbol, stats, t),
          !.records = <<[symbol |-> symbol, stats |-> stats]>>,
          !.waitingSymbols = CancelWaiting(ws, symbol),
          !.states = AggResetSymbol(base.states, symbol)]
  ELSE [base EXCEPT !.waitingSymbols = CancelWaiting(ws, symbol)]

\* the waiting branch, had it left the window in place on timeout
OnWaiting_NoReset(base, symbol, stats, t) ==
  LET updated == UpdateAggression(waitingSymbols, symbol, stats)
      exhaustionCheck == CheckExhaustion(updated, symbol, stats)
      checked == [base EXCEPT
                    !.check = [confirmed |-> exhaustionCheck.confirmed,
                               reason |-> exhaustionCheck.reason],
                    !.waitingSymbols = exhaustionCheck.waitingSymbols]
  IN IF exhaustionCheck.confirmed
     THEN OnConfirmed(checked, exhaustionCheck.waitingSymbols, symbol, stats, t)
     ELSE checked

\* the branch of a symbol that is waiting for exhaustion
OnWaiting(base, symbol, stats, t) ==
  LET updated == UpdateAggression(waitingSymbols, symbol, stats)
      exhaustionCheck == CheckExhaustion(updated, symbol, stats)
      checked == [base EXCEPT
                    !.check = [confirmed |-> exhaustionCheck.confirmed,
                               reason |-> exhaustionCheck.reason],
                    !.waitingSymbols = exhaustionCheck.waitingSymbols]
  IN IF exhaustionCheck.confirmed
     THEN OnConfirmed(checked, exhaustionCheck.waitingSymbols, symbol, stats, t)
     ELSE IF exhaustionCheck.reason = "timeout"
     THEN [checked EXCEPT !.states = AggResetSymbol(base.states, symbol)]
     ELSE checked

\* the branch of a symbol that is not waiting
OnIdle(base, symbol, stats) ==
  IF ShouldAlert(runtimeConfig, symbol, stats)
  THEN [base EXCEPT !.waitingSymbols = StartWaiting(waitingSymbols, symbol, stats)]
  ELSE base

\* handleMessage, had it gone on whatever the volume of the window
Handle_NoPreGate(symbol, sts, stats, t) ==
  LET config == ConfigGet(runtimeConfig, symbol)
      base == [states |-> sts, waitingSymbols |-> waitingSymbols,
               lastAlerts |-> lastAlerts, pendingAlerts |-> pendingAlerts,
               timers |-> timers, check |-> Null, sends |-> <<>>, records |-> <<>>]
  IN IF stats = Null \/ config = Null THEN base
     ELSE IF IsWaiting(waitingSymbols, symbol)
     THEN OnWaiting(base, symbol, stats, t)
     ELSE OnIdle(base, symbol, stats)

\* handleMessage(symbol, data) at time t, from the point where addTrade has left
\* the windows sts and getStats has returned stats
Handle(symbol, sts, stats, t) ==
  LET config == ConfigGet(runtimeConfig, symbol)
      base == [states |-> sts, waitingSymbols |-> waitingSymbols,
               lastAlerts |-> lastAlerts, pendingAlerts |-> pendingAlerts,
               timers |-> timers, check |-> Null, sends |-> <<>>, records |-> <<>>]
  IN IF stats = Null \/ config = Null THEN base
     ELSE IF FracLT(FracOfInt(stats.totalVolume),
                    FracMul(config.minVolumeUSD, Frac(5, 10))) THEN base
     ELSE IF IsWaiting(waitingSymbols, symbol)
     THEN OnWaiting(base, symbol, stats, t)
     ELSE OnIdle(base, symbol, stats)

(***************************************************************************)
(* Inputs                                                                  *)
(***************************************************************************)
\* the symbols whose feed delivers trades in the runs explored
FeedSymbols == {"ADAUSDT"}

\* the fields of an aggTrade message: p and q as parseFloat gives them, and m; its
\* trade time T is the clock at receipt
TradeInputs ==
  { [p |-> 1000, q |-> 300, m |-> FALSE],
    [p |-> 1010, q |-> 900, m |-> FALSE],
    [p |-> 1000, q |-> 250, m |-> TRUE] }

\* the cooldown history: reported key -> time of its last sendAlert call, 0 if none
SentAfter(sends, t) ==
  [k \in DOMAIN lastSent |->
     IF \E i \in DOMAIN sends :
          Key(sends[i].symbol, sends[i].stats.dominantSide) = k
     THEN t ELSE lastSent[k]]

\* the recordAlert history: key -> <<time of its last recordAlert call>>
RecordedAfter(records, t) ==
  [k \in DOMAIN recorded |->
     IF \E i \in DOMAIN records :
          Key(records[i].symbol, records[i].stats.dominantSide) = k
     THEN <<t>> ELSE recorded[k]]

(***************************************************************************)
(* Actions                                                                 *)
(***************************************************************************)
\* sinkCalls after a step that scheduled newTimers
SinkAfter(newTimers) ==
  [k \in DOMAIN sinkCalls |->
     IF \E tm \in newTimers : tm.key = k THEN 0 ELSE sinkCalls[k]]

\* how a run of the delivery callback ends: the message went out, the
\* formatter threw before the sink was called, or the sink call threw
DeliverOutcomes == {"sent", "formatThrew", "sinkThrew"}

\* Object.keys(symbolConfigs): the symbols in the order of SYMBOL_CONFIGS
SymbolOrder == <<"ADAUSDT", "TAOUSDT">>

\* getEnabledSymbols()
GetEnabledSymbols(cfgs) == SelectSeq(SymbolOrder, LAMBDA s : cfgs[s].enabled)

\* connectAll(): one setTimeout per symbol, 200 ms apart
ConnectAll(syms) == {[symbol |-> syms[i], delay |-> (i - 1) * 200] : i \in DOMAIN syms}

\* the state start() leaves, for the configs and the reconnect ceiling the
\* process was loaded with
StartState(cfgs, ceiling) ==
  /\ now \in StartTimes
  /\ runtimeConfig = cfgs
  /\ states = [s \in Symbols |-> NoState]
  /\ waitingSymbols = [s \in Symbols |-> Null]
  /\ lastAlerts = <<>>
  /\ pendingAlerts = {}
  /\ timers = {}
  /\ ev = [op |-> "init"]
  /\ lastSent = [k \in Symbols \X Sides |-> 0]
  /\ recorded = [k \in AllSymbols \X Sides |-> <<>>]
  /\ sinkCalls = [k \in Symbols \X Sides |-> 0]
  /\ maxReconnects = ceiling
  /\ symbols = GetEnabledSymbols(cfgs)
  /\ connections = [s \in Symbols |-> "none"]
  /\ reconnectAttempts = [s \in Symbols |-> 0]
  /\ connectTimers = ConnectAll(GetEnabledSymbols(cfgs))
  /\ shutdown = "running"

Init == StartState(SYMBOL_CONFIGS, MAX_RECONNECTS)

\* ws.on('message'): a trade message arrives d ms after the previous event
HandleMessage(symbol, d, input) ==
  /\ now + d <= MaxMinutes * 60000
  /\ \E msg \in {[p |-> input.p, q |-> input.q, T |-> now + d, m |-> input.m]} :
     \E sts \in {AggAddTrade(states, symbol, msg.T, msg.p, msg.q, msg.m)} :
     \E stats \in {AggGetStats(sts, symbol)} :
     \E r \in {Handle(symbol, sts, stats, msg.T)} :
       /\ Len(r.states[symbol].trades) <= MaxTrades
       /\ now' = msg.T
       /\ states' = r.states
       /\ waitingSymbols' = r.waitingSymbols
       /\ lastAlerts' = r.lastAlerts
       /\ pendingAlerts' = r.pendingAlerts
       /\ timers' = r.timers
       /\ ev' = [op |-> "message", symbol |-> symbol, msg |-> msg,
                 check |-> r.check, sends |-> r.sends]
       /\ lastSent' = SentAfter(r.sends, msg.T)
       /\ recorded' = RecordedAfter(r.records, msg.T)
       /\ sinkCalls' = SinkAfter(r.timers \ timers)
       /\ UNCHANGED <<runtimeConfig, wsVars>>

\* the callback, had it cleared the pending flag at the end of its try block
Deliver_ClearInTry(timer, d, outcome) ==
  /\ timer \in timers
  /\ now + d >= timer.fireAt
  /\ now + d <= MaxMinutes * 60000
  /\ now' = now + d
  /\ timers' = timers \ {timer}
  /\ pendingAlerts' = IF outcome = "sent" THEN pendingAlerts \ {timer.key}
                                          ELSE pendingAlerts
  /\ sinkCalls' = [sinkCalls EXCEPT ![timer.key] =
                      IF outcome = "formatThrew" THEN @ ELSE @ + 1]
  /\ ev' = [op |-> "deliver", key |-> timer.key, fireAt |-> timer.fireAt,
            outcome |-> outcome]
  /\ UNCHANGED <<runtimeConfig, states, waitingSymbols, lastAlerts, lastSent, recorded,
               wsVars>>

\* the callback, had its catch block scheduled itself again
Deliver_Retry(timer, d, outcome) ==
  /\ timer \in timers
  /\ now + d >= timer.fireAt
  /\ now + d <= MaxMinutes * 60000
  /\ now' = now + d
  /\ timers' = IF outcome = "sent" THEN timers \ {timer} ELSE timers
  /\ pendingAlerts' = IF outcome = "sent" THEN pendingAlerts \ {timer.key}
                                          ELSE pendingAlerts
  /\ sinkCalls' = [sinkCalls EXCEPT ![timer.key] =
                      IF outcome = "formatThrew" THEN @ ELSE @ + 1]
  /\ ev' = [op |-> "deliver", key |-> timer.key, fireAt |-> timer.fireAt,
            outcome |-> outcome]
  /\ UNCHANGED <<runtimeConfig, states, waitingSymbols, lastAlerts, lastSent, recorded,
               wsVars>>

\* the callback sendAlert gave to setTimeout runs to its end, d ms after the
\* previous event: it formats the message, calls the sink once unless the
\* formatting threw, and clears the pending flag in its finally block
Deliver(timer, d, outcome) ==
  /\ timer \in timers
  /\ now + d >= timer.fireAt
  /\ now + d <= MaxMinutes * 60000
  /\ now' = now + d
  /\ timers' = timers \ {timer}
  /\ pendingAlerts' = pendingAlerts \ {timer.key}
  /\ sinkCalls' = [sinkCalls EXCEPT ![timer.key] =
                      IF outcome = "formatThrew" THEN @ ELSE @ + 1]
  /\ ev' = [op |-> "deliver", key |-> timer.key, fireAt |-> timer.fireAt,
            outcome |-> outcome]
  /\ UNCHANGED <<runtimeConfig, states, waitingSymbols, lastAlerts, lastSent, recorded,
               wsVars>>

Next ==
  \/ \E symbol \in FeedSymbols : \E d \in Delays : \E input \in TradeInputs :
       HandleMessage(symbol, d, input)
  \/ \E timer \in timers : \E d \in Delays : \E outcome \in DeliverOutcomes :
       Deliver(timer, d, outcome)

Spec == Init /\ [][Next]_vars

(***************************************************************************)
(* Properties of the pipeline                                              *)
(***************************************************************************)
\* the stats handleMessage computes for msg, from the window before the step
LiveStats(symbol, msg) ==
  AggGetStats(AggAddTrade(states, symbol, msg.T, msg.p, msg.q, msg.m), symbol)

\* msg passes the pre-gate of handleMessage: stats, config, half the minimum volume
Qualifies(symbol, msg) ==
  /\ LiveStats(symbol, msg) # Null
  /\ ConfigGet(runtimeConfig, symbol) # Null
  /\ FracGE(FracOfInt(LiveStats(symbol, msg).totalVolume),
            FracMul(runtimeConfig[symbol].minVolumeUSD, Frac(1, 2)))

CooldownMs(symbol) ==
  FracMul(runtimeConfig[symbol].cooldownMinutes, FracOfInt(60000))

\* C1: two sendAlert calls for the same symbol whose reported stats have the same
\* dominantSide are at least cooldownMinutes x 60000 ms apart (the symbol's
\* cooldownMinutes is not changed in these runs).
C1_CooldownGate ==
  [][ev'.op = "message" =>
       \A i \in DOMAIN ev'.sends :
         LET k == Key(ev'.sends[i].symbol, ev'.sends[i].stats.dominantSide)
         IN lastSent[k] # 0 =>
              FracGE(FracOfInt(now' - lastSent[k]), CooldownMs(ev'.sends[i].symbol))]_vars

\* C5: when the qualifying tick that brings a waiting symbol's tick count to
\* maxWaitTicks is not confirmed, it ends in timeout: the WaitingState is
\* deleted, sendAlert is not called, the window is reset (getStats is null) and
\* no CooldownRecord changes.
C5_TimeoutTransition ==
  [][\A s \in Symbols :
       (/\ ev'.op = "message"
        /\ ev'.symbol = s
        /\ IsWaiting(waitingSymbols, s)
        /\ waitingSymbols[s].candleCount = EXHAUSTION_MAX_WAIT - 1
        /\ Qualifies(s, ev'.msg)
        /\ ~ev'.check.confirmed)
       => /\ ev'.check = [confirmed |-> FALSE, reason |-> "timeout"]
          /\ ~IsWaiting(waitingSymbols', s)
          /\ ev'.sends = <<>>
          /\ AggGetStats(states', s) = Null
          /\ lastAlerts' = lastAlerts]_vars

C5_Witness ==
  /\ ev.op = "message"
  /\ ev.check = [confirmed |-> FALSE, reason |-> "timeout"]
  /\ lastAlerts # <<>>

\* C6: when the three exhaustion conditions hold on the tick that brings the tick
\* count to maxWaitTicks (four samples), that tick is confirmed.
C6_ConfirmsOnLastTick ==
  [][\A s \in Symbols :
       (/\ ev'.op = "message"
        /\ ev'.symbol = s
        /\ IsWaiting(waitingSymbols, s)
        /\ waitingSymbols[s].candleCount = EXHAUSTION_MAX_WAIT - 1
        /\ Qualifies(s, ev'.msg)
        /\ LET h == UpdateAggression(waitingSymbols, s, LiveStats(s, ev'.msg))[s]
                      .aggressionHistory
           IN /\ Len(h) = 4
              /\ AggressionDecreased(h, LiveStats(s, ev'.msg))
              /\ IsVolumeDecreasing(h)
              /\ IsPriceSlowing(h))
       => ev'.check.confirmed]_vars

\* C32: a symbol has one WaitingState or none; its aggressionHistory holds
\* between 1 and N + 1 samples and its tick count is below maxWaitTicks; a
\* qualifying tick that leaves the symbol waiting has appended one sample, the
\* one of the tick, and has added one to the tick count.
C32_WaitingWellFormed ==
  /\ [](\A s \in Symbols :
          IsWaiting(waitingSymbols, s) =>
            /\ Len(waitingSymbols[s].aggressionHistory) >= 1
            /\ Len(waitingSymbols[s].aggressionHistory) <= EXHAUSTION_AVG_CANDLES + 1
            /\ waitingSymbols[s].candleCount >= 0
            /\ waitingSymbols[s].candleCount < EXHAUSTION_MAX_WAIT)
  /\ [][\A s \in Symbols :
          (/\ ev'.op = "message"
           /\ ev'.symbol = s
           /\ IsWaiting(waitingSymbols, s)
           /\ IsWaiting(waitingSymbols', s)
           /\ Qualifies(s, ev'.msg))
          => LET h == waitingSymbols[s].aggressionHistory
                 g == waitingSymbols'[s].aggressionHistory
                 live == LiveStats(s, ev'.msg)
             IN /\ waitingSymbols'[s].candleCount = waitingSymbols[s].candleCount + 1
                /\ Len(g) = IF Len(h) = EXHAUSTION_AVG_CANDLES + 1
                            THEN Len(h) ELSE Len(h) + 1
                /\ g[Len(g)] = [aggression |-> CalculateAggression(live),
                                priceChange |-> FracAbs(live.priceChange)]
                /\ Len(g) = Len(h) + 1 => SubSeq(g, 1, Len(h)) = h]_vars

C32_Witness ==
  /\ ev.op = "message"
  /\ IsWaiting(waitingSymbols, ev.symbol)
  /\ waitingSymbols[ev.symbol].candleCount = EXHAUSTION_MAX_WAIT - 1
  /\ Len(waitingSymbols[ev.symbol].aggressionHistory) = EXHAUSTION_MAX_WAIT

\* C33: when sendAlert is called with stats of side S, the cooldown gate
\* consulted and the CooldownRecord written in that handler are those of
\* (symbol, S): the key of the tick's own stats, which canAlert and
\* recordAlert are given, is the key of the alert.
C33_CooldownKeyOfAlert ==
  [][ev'.op = "message" =>
       \A i \in DOMAIN ev'.sends :
         LET k == Key(ev'.sends[i].symbol, ev'.sends[i].stats.dominantSide)
             live == Key(ev'.symbol, LiveStats(ev'.symbol, ev'.msg).dominantSide)
         IN /\ live = k
            /\ k \in DOMAIN lastAlerts'
            /\ lastAlerts'[k] = now'
            /\ recorded'[k] = <<now'>>]_vars

\* C34: when the sendAlert call of a confirmed signal is dropped because an
\* alert of its key is pending, the handler writes no CooldownRecord and the
\* signal keeps its WaitingState and its window.
C34_StampOnlyIfScheduled ==
  [][ev'.op = "message" =>
       \A i \in DOMAIN ev'.sends :
         Key(ev'.sends[i].symbol, ev'.sends[i].stats.dominantSide) \in pendingAlerts
           => /\ lastAlerts' = lastAlerts
              /\ recorded' = recorded
              /\ IsWaiting(waitingSymbols', ev'.symbol)
              /\ states'[ev'.symbol] # NoState
              /\ states'[ev'.symbol].trades # <<>>]_vars

\* C37: when checkExhaustion confirms and canAlert is false, the WaitingState
\* is deleted, sendAlert is not called, no CooldownRecord is written and the
\* window keeps its trades, the one of the message included.
C37_ConfirmedButCooling ==
  [][\A s \in Symbols :
       (/\ ev'.op = "message"
        /\ ev'.symbol = s
        /\ IsWaiting(waitingSymbols, s)
        /\ ev'.check # Null
        /\ ev'.check.confirmed
        /\ ~CanAlert(runtimeConfig, lastAlerts, s, LiveStats(s, ev'.msg), now'))
       => /\ ~IsWaiting(waitingSymbols', s)
          /\ ev'.sends = <<>>
          /\ lastAlerts' = lastAlerts
          /\ recorded' = recorded
          /\ UNCHANGED <<pendingAlerts, timers>>
          /\ states' = AggAddTrade(states, s, ev'.msg.T, ev'.msg.p, ev'.msg.q,
                                   ev'.msg.m)]_vars

C37_Witness ==
  /\ ev.op = "message"
  /\ ev.check # Null
  /\ ev.check.confirmed
  /\ ev.sends = <<>>
  /\ ~IsWaiting(waitingSymbols, ev.symbol)
  /\ states[ev.symbol].trades # <<>>

\* C7: the stats handed to sendAlert are the snapshot taken when the symbol went
\* from Idle to Waiting: the snapshot is the stats of that tick, no later step
\* changes it while the symbol waits, and sendAlert receives it.
C7_ReportsSnapshot ==
  [][/\ \A s \in Symbols :
          /\ (~IsWaiting(waitingSymbols, s) /\ IsWaiting(waitingSymbols', s))
               => /\ ev'.op = "message" /\ ev'.symbol = s
                  /\ waitingSymbols'[s].pendingStats = LiveStats(s, ev'.msg)
          /\ (IsWaiting(waitingSymbols, s) /\ IsWaiting(waitingSymbols', s))
               => waitingSymbols'[s].pendingStats = waitingSymbols[s].pendingStats
     /\ ev'.op = "message" =>
          \A i \in DOMAIN ev'.sends :
            /\ IsWaiting(waitingSymbols, ev'.symbol)
            /\ ev'.sends[i].symbol = ev'.symbol
            /\ ev'.sends[i].stats = waitingSymbols[ev'.symbol].pendingStats]_vars

\* a sendAlert call whose stats are not those of the confirming tick (the live
\* lastPrice is the price of the message handled)
C7_Witness ==
  /\ ev.op = "message"
  /\ ev.sends # <<>>
  /\ ev.sends[1].stats.lastPrice # ev.msg.p

(***************************************************************************)
(* ExhaustionTracker driven through its methods, in any order              *)
(***************************************************************************)
MaxCandles == 4                  \* updateAggression is not called past this candleCount

\* getStats() of a window holding the two trades of w, both received at time t
StatsOfTrades(w, t) ==
  SymbolGetStats(SymbolAddTrade(SymbolAddTrade(NewSymbolState,
                                               t, w[1].p, w[1].q, w[1].m),
                                t, w[2].p, w[2].q, w[2].m))

TrackerWindows ==
  { <<[p |-> 1000, q |-> 600, m |-> FALSE], [p |-> 1000, q |-> 600, m |-> FALSE]>>,
    <<[p |-> 1000, q |-> 400, m |-> FALSE], [p |-> 1010, q |-> 500, m |-> FALSE]>>,
    <<[p |-> 1000, q |-> 100, m |-> FALSE], [p |-> 1020, q |-> 400, m |-> FALSE]>>,
    <<[p |-> 1000, q |-> 100, m |-> TRUE], [p |-> 1000, q |-> 100, m |-> TRUE]>> }

TrackerStats == { StatsOfTrades(w, 60000) : w \in TrackerWindows }

TrackerFrame == UNCHANGED <<now, runtimeConfig, states, lastAlerts, pendingAlerts,
                            timers, lastSent, recorded, sinkCalls, wsVars>>

CallStartWaiting(symbol, stats) ==
  /\ waitingSymbols' = StartWaiting(waitingSymbols, symbol, stats)
  /\ ev' = [op |-> "startWaiting", symbol |-> symbol]
  /\ TrackerFrame

CallUpdateAggression(symbol, stats) ==
  /\ IsWaiting(waitingSymbols, symbol) => waitingSymbols[symbol].candleCount < MaxCandles
  /\ waitingSymbols' = UpdateAggression(waitingSymbols, symbol, stats)
  /\ ev' = [op |-> "updateAggression", symbol |-> symbol]
  /\ TrackerFrame

CallCheckExhaustion(symbol, stats) ==
  LET r == CheckExhaustion(waitingSymbols, symbol, stats)
  IN /\ waitingSymbols' = r.waitingSymbols
     /\ ev' = [op |-> "checkExhaustion", symbol |-> symbol, stats |-> stats,
               result |-> [confirmed |-> r.confirmed, reason |-> r.reason]]
     /\ TrackerFrame

CallCancelWaiting(symbol) ==
  /\ waitingSymbols' = CancelWaiting(waitingSymbols, symbol)
  /\ ev' = [op |-> "cancelWaiting", symbol |-> symbol]
  /\ TrackerFrame

NextTracker ==
  \/ \E symbol \in FeedSymbols : \E stats \in TrackerStats : CallStartWaiting(symbol, stats)
  \/ \E symbol \in FeedSymbols : \E stats \in TrackerStats : CallUpdateAggression(symbol, stats)
  \/ \E symbol \in FeedSymbols : \E stats \in TrackerStats : CallCheckExhaustion(symbol, stats)
  \/ \E symbol \in FeedSymbols : CallCancelWaiting(symbol)

SpecTracker == Init /\ [][NextTracker]_vars

\* the samples held for symbol, none when it is not waiting
HistoryOf(symbol) ==
  IF IsWaiting(waitingSymbols, symbol)
  THEN waitingSymbols[symbol].aggressionHistory ELSE <<>>

\* C2: after any sequence of startWaiting / updateAggression / checkExhaustion
\* calls, checkExhaustion does not return confirmed = true for a symbol whose
\* aggressionHistory holds fewer than 3 samples.
C2_NeedsThreeSamples ==
  [][(ev'.op = "checkExhaustion" /\ Len(HistoryOf(ev'.symbol)) < 3)
       => ~ev'.result.confirmed]_vars

\* checkExhaustion answered insufficient_data on two samples although the
\* aggression of its argument is below half the first sample
C2_Witness ==
  /\ ev.op = "checkExhaustion"
  /\ ev.result.reason = "insufficient_data"
  /\ Len(HistoryOf(ev.symbol)) = 2
  /\ 2 * CalculateAggression(ev.stats) < HistoryOf(ev.symbol)[1].aggression

\* C3: checkExhaustion returns confirmed = true only if, at that call, (a) the
\* current aggression is below 0.5 x the average aggression of the samples before
\* the latest one, (b) the last three samples' aggression is strictly decreasing,
\* and (c) the price-slowing condition holds.
C3_AllThreeConditions ==
  [][(ev'.op = "checkExhaustion" /\ ev'.result.confirmed)
       => LET h == HistoryOf(ev'.symbol)
              n == Len(h)
          IN /\ n >= 3
             /\ 2 * (n - 1) * CalculateAggression(ev'.stats)
                  < SumAggression(SubSeq(h, 1, n - 1))
             /\ h[n].aggression < h[n - 1].aggression
             /\ h[n - 1].aggression < h[n - 2].aggression
             /\ IsPriceSlowing(h)]_vars

C3_Witness ==
  /\ ev.op = "checkExhaustion"
  /\ ev.result = [confirmed |-> TRUE, reason |-> "exhaustion_detected"]

\* C31: condition (c) holds exactly when the latest |priceChange| sample is
\* not greater than the one before it, equality included, or is below 0.1.
C31_PriceSlowingNonIncreasing ==
  \A s \in Symbols :
    Len(HistoryOf(s)) >= 3 =>
      LET h == HistoryOf(s)
          latest == h[Len(h)].priceChange
          previous == h[Len(h) - 1].priceChange
      IN IsPriceSlowing(h) <=> (~FracLT(previous, latest) \/ FracLT(latest, NEUTRAL_DELTA))

(***************************************************************************)
(* CooldownManager driven through its methods, with cooldownMinutes set    *)
(* between the calls                                                       *)
(***************************************************************************)
MaxCooldownMinutes == 4          \* the clock of these runs stops after this many minutes
CooldownDelays == {0, 60000}
\* what /set gives for cooldownMinutes: not a number, -1, 0, 1, 1.5
CooldownValues == {NaN, Frac(-1, 1), Frac(0, 1), Frac(1, 1), Frac(3, 2)}
SetSymbols == {"ADAUSDT", UnknownSymbol}

\* the one field of stats that canAlert and recordAlert read
StatsOfSide(side) == [dominantSide |-> side]

CooldownFrame ==
  UNCHANGED <<states, waitingSymbols, pendingAlerts, timers, lastSent, sinkCalls,
              wsVars>>

CallRecordAlert(symbol, side, d) ==
  /\ now + d <= MaxCooldownMinutes * 60000
  /\ now' = now + d
  /\ lastAlerts' = RecordAlert(lastAlerts, symbol, StatsOfSide(side), now + d)
  /\ recorded' = [recorded EXCEPT ![Key(symbol, side)] = <<now + d>>]
  /\ ev' = [op |-> "recordAlert", symbol |-> symbol, side |-> side]
  /\ UNCHANGED runtimeConfig
  /\ CooldownFrame

CallSet(symbol, numValue, d) ==
  /\ now + d <= MaxCooldownMinutes * 60000
  /\ now' = now + d
  /\ runtimeConfig' =
       ConfigSet(runtimeConfig, symbol, "cooldownMinutes", numValue).symbolConfigs
  /\ ev' = [op |-> "set",
            threw |-> ConfigSet(runtimeConfig, symbol, "cooldownMinutes", numValue).threw]
  /\ UNCHANGED <<lastAlerts, recorded>>
  /\ CooldownFrame

NextCooldown ==
  \/ \E symbol \in Symbols : \E side \in Sides : \E d \in CooldownDelays :
       CallRecordAlert(symbol, side, d)
  \/ \E symbol \in SetSymbols : \E numValue \in CooldownValues : \E d \in CooldownDelays :
       CallSet(symbol, numValue, d)

SpecCooldown == Init /\ [][NextCooldown]_vars

\* canAlert(symbol, stats with that dominantSide), called now
CanAlertNow(symbol, side) ==
  CanAlert(runtimeConfig, lastAlerts, symbol, StatsOfSide(side), now)

\* C8 as stated: for every cooldownMinutes >= 0, canAlert(symbol, side) is false
\* when called with zero elapsed time after recordAlert(symbol, side).
C8_BlockedAtOnce ==
  ev.op = "recordAlert" => ~CanAlertNow(ev.symbol, ev.side)

\* C8, amended: called with zero elapsed time after recordAlert(symbol, side),
\* canAlert(symbol, side) is false when cooldownMinutes > 0 and true when
\* cooldownMinutes = 0.
C8_BlockedAtOnceUnlessZero ==
  ev.op = "recordAlert" =>
    (CanAlertNow(ev.symbol, ev.side) <=> runtimeConfig[ev.symbol].cooldownMinutes.n = 0)

\* recordAlert has just stamped a key whose symbol has a fractional cooldownMinutes
C8_Witness ==
  /\ ev.op = "recordAlert"
  /\ runtimeConfig[ev.symbol].cooldownMinutes = Frac(3, 2)
  /\ ~CanAlertNow(ev.symbol, ev.side)

\* C9: canAlert is false for a symbol without config; for a configured symbol it
\* is true exactly when recordAlert was never called for (symbol, dominantSide)
\* or now - (time of the last such call) >= cooldownMinutes x 60000 ms, with the
\* cooldownMinutes of the moment of the call.
C9_CanAlertReference ==
  \A symbol \in AllSymbols : \A side \in Sides :
    CanAlertNow(symbol, side) <=>
      /\ symbol \in DOMAIN runtimeConfig
      /\ \/ recorded[Key(symbol, side)] = <<>>
         \/ (now - recorded[Key(symbol, side)][1]) * runtimeConfig[symbol].cooldownMinutes.d
              >= runtimeConfig[symbol].cooldownMinutes.n * 60000

\* a key whose cooldown ends at this very millisecond, after cooldownMinutes was set
C9_Witness ==
  /\ recorded[Key("ADAUSDT", "buy")] = <<now - 60000>>
  /\ runtimeConfig["ADAUSDT"].cooldownMinutes = Frac(1, 1)
  /\ CanAlertNow("ADAUSDT", "buy")
  /\ ~CanAlertNow("TAOUSDT", "buy")
  /\ recorded[Key("TAOUSDT", "buy")] # <<>>

\* C10: recordAlert(symbol, side) changes the CooldownRecord of (symbol, side)
\* alone: for the other side and for every other symbol the record and the answer
\* of canAlert are what they would be without the call.
C10_RecordAlertFrame ==
  [][ev'.op = "recordAlert" =>
       \A symbol \in AllSymbols : \A side \in Sides :
         Key(symbol, side) # Key(ev'.symbol, ev'.side) =>
           /\ (Key(symbol, side) \in DOMAIN lastAlerts'
                 <=> Key(symbol, side) \in DOMAIN lastAlerts)
           /\ Key(symbol, side) \in DOMAIN lastAlerts =>
                lastAlerts'[Key(symbol, side)] = lastAlerts[Key(symbol, side)]
           /\ CanAlert(runtimeConfig', lastAlerts', symbol, StatsOfSide(side), now')
                = CanAlert(runtimeConfig, lastAlerts, symbol, StatsOfSide(side), now')]_vars

\* recordAlert has just stamped one side while the other side of the same symbol,
\* stamped earlier, is free again
C10_Witness ==
  /\ ev.op = "recordAlert"
  /\ ~CanAlertNow(ev.symbol, ev.side)
  /\ \E side \in Sides \ {ev.side} :
       /\ recorded[Key(ev.symbol, side)] # <<>>
       /\ CanAlertNow(ev.symbol, side)

(***************************************************************************)
(* The pipeline on a feed that never stops                                 *)
(*                                                                         *)
(* The handlers read the clock through differences of two times (the       *)
(* window's cutoff, the cooldown's elapsed time, a timer's delay) and      *)
(* through its remainder modulo one minute (the dispatch boundary), so a   *)
(* run is unchanged when the clock's origin moves by whole minutes.        *)
(* Rebase moves the origin; with it, a run of unbounded duration stays     *)
(* among the times up to MaxMinutes.                                       *)
(***************************************************************************)
LiveDelays == {180000, 240000}

ShiftTrades(trades, by) ==
  [i \in DOMAIN trades |-> [trades[i] EXCEPT !.timestamp = @ - by]]

ShiftState(st, by) ==
  IF st = NoState THEN st ELSE [st EXCEPT !.trades = ShiftTrades(@, by)]

\* every time the state holds, by ms earlier; a time of 0 stands for none in
\* lastAlerts and lastSent, so the times there stay positive
Rebase(by) ==
  /\ now - by >= 60000
  /\ \A k \in DOMAIN lastAlerts : lastAlerts[k] - by > 0
  /\ \A k \in DOMAIN lastSent : lastSent[k] = 0 \/ lastSent[k] - by > 0
  /\ now' = now - by
  /\ states' = [s \in DOMAIN states |-> ShiftState(states[s], by)]
  /\ lastAlerts' = [k \in DOMAIN lastAlerts |-> lastAlerts[k] - by]
  /\ timers' = {[tm EXCEPT !.fireAt = @ - by] : tm \in timers}
  /\ lastSent' = [k \in DOMAIN lastSent |->
                    IF lastSent[k] = 0 THEN 0 ELSE lastSent[k] - by]
  /\ recorded' = [k \in DOMAIN recorded |->
                    IF recorded[k] = <<>> THEN <<>> ELSE <<recorded[k][1] - by>>]
  /\ ev' = [op |-> "rebase"]
  /\ UNCHANGED <<runtimeConfig, waitingSymbols, pendingAlerts, sinkCalls, wsVars>>

LiveMessage(symbol) ==
  \E d \in LiveDelays : \E input \in TradeInputs : HandleMessage(symbol, d, input)

NextLive ==
  \/ \E symbol \in FeedSymbols : LiveMessage(symbol)
  \/ \E timer \in timers : \E d \in LiveDelays : \E outcome \in DeliverOutcomes :
       Deliver(timer, d, outcome)
  \/ \E minutes \in 1..MaxMinutes : Rebase(minutes * 60000)

\* weak fairness on message delivery, per feed
SpecLive ==
  Init /\ [][NextLive]_vars /\ \A symbol \in FeedSymbols : WF_vars(LiveMessage(symbol))

\* C4: as long as a symbol's feed keeps delivering trade messages, the symbol,
\* once Waiting, is eventually Idle again.
C4_NoLeakedWaiting ==
  \A symbol \in FeedSymbols :
    ([]<><<LiveMessage(symbol)>>_vars)
      => (IsWaiting(waitingSymbols, symbol) ~> ~IsWaiting(waitingSymbols, symbol))

(***************************************************************************)
(* The dispatcher on its own: AlertManager.sendAlert called for any key at *)
(* any time, interleaved with the delivery callbacks.  The clock takes     *)
(* values on, just before and between the minute boundaries.               *)
(***************************************************************************)
MaxDispatchMinutes == 3          \* sendAlert is not called past this many minutes

DispatchDelays == {0, 20000, 59999}

\* the delivery that ended in the previous step, <<>> if that step was none
JustDelivered == IF ev.op = "deliver" THEN <<ev.key, ev.outcome>> ELSE <<>>

\* alertManager.sendAlert(symbol, stats, interpretation), d ms after the
\* previous event
CallSendAlert(symbol, side, d) ==
  /\ now + d <= MaxDispatchMinutes * 60000
  /\ \E stats \in {StatsOfSide(side)} :
     \E sa \in {SendAlert(pendingAlerts, timers, symbol, stats,
                          InterpretSignal(stats), now + d)} :
       /\ now' = now + d
       /\ pendingAlerts' = sa.pendingAlerts
       /\ timers' = sa.timers
       /\ lastSent' = [lastSent EXCEPT ![Key(symbol, side)] = now + d]
       /\ sinkCalls' = SinkAfter(sa.timers \ timers)
       /\ ev' = [op |-> "sendAlert", key |-> Key(symbol, side), at |-> now + d,
                 wasPending |-> Key(symbol, side) \in pendingAlerts,
                 scheduled |-> sa.timers \ timers, after |-> JustDelivered]
  /\ UNCHANGED <<runtimeConfig, states, waitingSymbols, lastAlerts, recorded, wsVars>>

NextDispatch ==
  \/ \E symbol \in FeedSymbols : \E side \in Sides : \E d \in DispatchDelays :
       CallSendAlert(symbol, side, d)
  \/ \E timer \in timers : \E d \in DispatchDelays : \E outcome \in DeliverOutcomes :
       Deliver(timer, d, outcome)

SpecDispatch == Init /\ [][NextDispatch]_vars

TimersOf(key) == {tm \in timers : tm.key = key}

\* C11: at most one alert is pending per (symbol, dominantSide), the pending
\* set holds exactly the keys with a scheduled callback, and a sendAlert call
\* for a key that is pending schedules nothing, calls the sink for nothing and
\* leaves the pending set as it was.
C11_OnePendingPerKey ==
  /\ [](\A key \in FeedSymbols \X Sides :
          /\ Cardinality(TimersOf(key)) <= 1
          /\ key \in pendingAlerts <=> TimersOf(key) # {})
  /\ [][(ev'.op = "sendAlert" /\ ev'.key \in pendingAlerts)
          => UNCHANGED <<pendingAlerts, timers, sinkCalls>>]_vars

C11_Witness ==
  /\ ev.op = "sendAlert"
  /\ ev.wasPending
  /\ ev.scheduled = {}
  /\ ev.at > lastSent[<<"ADAUSDT", "buy">>]
  /\ pendingAlerts = FeedSymbols \X Sides

\* C12: a run of the delivery callback clears the pending flag of its key
\* whether the message went out, the formatter threw or the sink threw, and a
\* sendAlert for the key that follows a failed delivery is marked pending and
\* scheduled for the next boundary.
C12_ClearedOnFailure ==
  /\ ev.op = "deliver" =>
       /\ ev.key \notin pendingAlerts
       /\ TimersOf(ev.key) = {}
  /\ (ev.op = "sendAlert" /\ ev.after \in {ev.key} \X {"formatThrew", "sinkThrew"}) =>
       /\ ev.key \in pendingAlerts
       /\ \E tm \in TimersOf(ev.key) : ev.scheduled = {tm} /\ tm.fireAt = NextMinute(ev.at)

C12_Witness ==
  /\ ev.op = "sendAlert"
  /\ ev.after = <<ev.key, "sinkThrew">>
  /\ ev.scheduled # {}

\* C13: an accepted sendAlert at time t schedules its delivery at
\* T = ceil(t / 60000) * 60000, a multiple of 60000 with 0 <= T - t < 60000,
\* and the callback, hence the sink call, never runs before T.
C13_NextBoundary ==
  /\ ev.op = "sendAlert" =>
       \A tm \in ev.scheduled :
         /\ tm.fireAt % 60000 = 0
         /\ tm.fireAt >= ev.at
         /\ tm.fireAt - ev.at < 60000
  /\ ev.op = "deliver" => now >= ev.fireAt

C13_Witness ==
  /\ ev.op = "deliver"
  /\ ev.outcome = "sent"
  /\ lastSent[ev.key] % 60000 = 59999
  /\ ev.fireAt = lastSent[ev.key] + 1

\* C14: since the last sendAlert that was scheduled for a key the sink has been
\* called at most once for it, and not at all while that alert is still
\* pending: a failed sink call is not repeated and no later step sends the
\* alert again.
C14_AtMostOnce ==
  \A key \in DOMAIN sinkCalls :
    /\ sinkCalls[key] <= 1
    /\ key \in pendingAlerts => sinkCalls[key] = 0

C14_Witness ==
  /\ ev.op = "sendAlert"
  /\ ev.wasPending
  /\ \E key \in DOMAIN sinkCalls :
       /\ ev.after = <<key, "sinkThrew">>
       /\ key # ev.key
       /\ sinkCalls[key] = 1

(***************************************************************************)
(* The trade window on its own: TradeAggregator.addTrade called with any   *)
(* trade time (a feed may deliver trades out of the order of their T) and  *)
(* resetSymbol.  The last input is a trade of quantity "0", the third      *)
(* evens the volume of the first.                                          *)
(***************************************************************************)
MaxWindowTrades == 3             \* a window of these runs holds at most this many trades

TradeTimes == {60000, 120000, 300000}

WindowInputs ==
  { [p |-> 1000, q |-> 300, m |-> FALSE],
    [p |-> 1010, q |-> 900, m |-> FALSE],
    [p |-> 1000, q |-> 300, m |-> TRUE],
    [p |-> 1000, q |-> 0, m |-> FALSE] }

\* the trades a symbol's window retains
Retained(sts, symbol) == IF sts[symbol] = NoState THEN <<>> ELSE sts[symbol].trades

WindowFrame ==
  UNCHANGED <<now, waitingSymbols, lastAlerts, pendingAlerts, timers, lastSent,
              recorded, sinkCalls, wsVars>>

\* tradeAggregator.addTrade(symbol, timestamp, price, quantity, isBuyerMaker)
CallAddTrade(symbol, timestamp, input) ==
  /\ \E sts \in {AggAddTrade(states, symbol, timestamp, input.p, input.q, input.m)} :
       /\ Len(sts[symbol].trades) <= MaxWindowTrades
       /\ states' = sts
  /\ ev' = [op |-> "addTrade", symbol |-> symbol, timestamp |-> timestamp,
            input |-> input, before |-> Retained(states, symbol)]
  /\ UNCHANGED runtimeConfig
  /\ WindowFrame

\* tradeAggregator.resetSymbol(symbol)
CallResetSymbol(symbol) ==
  /\ states' = AggResetSymbol(states, symbol)
  /\ ev' = [op |-> "resetSymbol", symbol |-> symbol]
  /\ UNCHANGED runtimeConfig
  /\ WindowFrame

NextWindow ==
  \/ \E symbol \in FeedSymbols : \E timestamp \in TradeTimes : \E input \in WindowInputs :
       CallAddTrade(symbol, timestamp, input)
  \/ \E symbol \in FeedSymbols : CallResetSymbol(symbol)

SpecWindow == Init /\ [][NextWindow]_vars

RECURSIVE IsSubsequence(_, _)
IsSubsequence(a, b) ==
  IF a = <<>> THEN TRUE
  ELSE IF b = <<>> THEN FALSE
  ELSE IF a[1] = b[1] THEN IsSubsequence(Tail(a), Tail(b))
  ELSE IsSubsequence(a, Tail(b))

\* C15: after addTrade, every retained trade is at most the window duration
\* older than the trade just added, the trade just added is the last one
\* retained, and the ones before it are trades retained before the call, in
\* the order they had.
C15_WindowInvariant ==
  ev.op = "addTrade" =>
    LET trades == Retained(states, ev.symbol)
    IN /\ \A i \in DOMAIN trades :
            ev.timestamp - trades[i].timestamp <= WINDOW_SECONDS * 1000
       /\ Len(trades) >= 1
       /\ trades[Len(trades)].timestamp = ev.timestamp
       /\ trades[Len(trades)].price = ev.input.p
       /\ IsSubsequence(SubSeq(trades, 1, Len(trades) - 1), ev.before)

C15_Witness ==
  /\ ev.op = "addTrade"
  /\ Len(ev.before) = 3
  /\ ev.before[1].timestamp = 300000
  /\ ev.before[2].timestamp = 60000
  /\ ev.before[3].timestamp = 120000
  /\ ev.timestamp = 300000
  /\ Retained(states, ev.symbol) = <<ev.before[1], ev.before[3]>> \o
       <<[timestamp |-> 300000, price |-> ev.input.p,
          buyVol |-> IF ev.input.m THEN 0 ELSE ev.input.p * ev.input.q,
          sellVol |-> IF ev.input.m THEN ev.input.p * ev.input.q ELSE 0]>>

FracEq(a, b) == ~FracLT(a, b) /\ ~FracLT(b, a)

Max(a, b) == IF a >= b THEN a ELSE b

\* C16: in every snapshot getStats returns, buyVolume and sellVolume are the
\* sums over the retained trades, totalVolume is their sum, and dominance is
\* max(buyVolume, sellVolume) / totalVolume * 100, between 50 and 100.
C16_SnapshotArithmetic ==
  \A symbol \in Symbols :
    LET stats == AggGetStats(states, symbol)
        trades == Retained(states, symbol)
    IN stats # Null =>
         /\ stats.buyVolume = SumField(trades, "buyVol")
         /\ stats.sellVolume = SumField(trades, "sellVol")
         /\ stats.totalVolume = stats.buyVolume + stats.sellVolume
         /\ FracEq(stats.dominance,
                   Frac(Max(stats.buyVolume, stats.sellVolume) * 100, stats.totalVolume))
         /\ FracGE(stats.dominance, FracOfInt(50))
         /\ FracGE(FracOfInt(100), stats.dominance)

C16_Witness ==
  \E symbol \in Symbols :
    /\ AggGetStats(states, symbol) # Null
    /\ Len(Retained(states, symbol)) = 3
    /\ AggGetStats(states, symbol).sellVolume > AggGetStats(states, symbol).buyVolume
    /\ AggGetStats(states, symbol).buyVolume > 0
    /\ ev.op = "addTrade"

\* C17: in every snapshot dominantSide is "buy" when buyVolume > sellVolume,
\* and "sell" when sellVolume > buyVolume and when the two are equal.
C17_DominantSide ==
  \A symbol \in Symbols :
    LET stats == AggGetStats(states, symbol)
    IN stats # Null =>
         /\ stats.buyVolume > stats.sellVolume => stats.dominantSide = "buy"
         /\ stats.sellVolume > stats.buyVolume => stats.dominantSide = "sell"
         /\ stats.buyVolume = stats.sellVolume => stats.dominantSide = "sell"

C17_Witness ==
  \E symbol \in Symbols :
    /\ AggGetStats(states, symbol) # Null
    /\ AggGetStats(states, symbol).buyVolume = AggGetStats(states, symbol).sellVolume
    /\ AggGetStats(states, symbol).buyVolume > 0
    /\ AggGetStats(states, symbol).dominantSide = "sell"

\* C18 as stated: getStats(symbol) is null exactly when the symbol has no
\* retained trade.
C18_NullIffEmpty ==
  \A symbol \in Symbols :
    AggGetStats(states, symbol) = Null <=> Len(Retained(states, symbol)) = 0

\* C18, amended: getStats(symbol) is null exactly when the symbol has no
\* retained trade or the retained trades have no volume; otherwise it is a
\* snapshot of the retained trades.
C18_NullIffNoVolume ==
  \A symbol \in Symbols :
    LET stats == AggGetStats(states, symbol)
        trades == Retained(states, symbol)
    IN /\ stats = Null <=>
            \/ Len(trades) = 0
            \/ SumField(trades, "buyVol") + SumField(trades, "sellVol") = 0
       /\ stats # Null =>
            /\ stats.tradeCount = Len(trades)
            /\ stats.totalVolume = SumField(trades, "buyVol") + SumField(trades, "sellVol")
            /\ stats.lastPrice = trades[Len(trades)].price

C18_Witness ==
  \E symbol \in Symbols :
    /\ Len(Retained(states, symbol)) = 2
    /\ AggGetStats(states, symbol) = Null
    /\ ev.op = "addTrade"

(***************************************************************************)
(* The candidate filter on its own: shouldAlert applied to the snapshots   *)
(* of windows built from trades that are large or small, one-sided or      *)
(* balanced, with the price rising, flat or falling, under a config that   *)
(* enable and disable switch.                                              *)
(***************************************************************************)
SignalTimes == {60000}

SignalInputs ==
  { [p |-> 1000, q |-> 300, m |-> FALSE],
    [p |-> 1010, q |-> 300, m |-> FALSE],
    [p |-> 1010, q |-> 900, m |-> FALSE],
    [p |-> 1000, q |-> 300, m |-> TRUE],
    [p |-> 990, q |-> 900, m |-> TRUE] }

\* runtimeConfig.enable(symbol)
CallEnable(symbol) ==
  /\ runtimeConfig' = ConfigEnable(runtimeConfig, symbol).symbolConfigs
  /\ ev' = [op |-> "enable", symbol |-> symbol,
            threw |-> ConfigEnable(runtimeConfig, symbol).threw]
  /\ UNCHANGED states
  /\ WindowFrame

\* runtimeConfig.disable(symbol)
CallDisable(symbol) ==
  /\ runtimeConfig' = ConfigDisable(runtimeConfig, symbol).symbolConfigs
  /\ ev' = [op |-> "disable", symbol |-> symbol,
            threw |-> ConfigDisable(runtimeConfig, symbol).threw]
  /\ UNCHANGED states
  /\ WindowFrame

NextSignal ==
  \/ \E symbol \in FeedSymbols : \E timestamp \in SignalTimes : \E input \in SignalInputs :
       CallAddTrade(symbol, timestamp, input)
  \/ \E symbol \in FeedSymbols : CallResetSymbol(symbol)
  \/ \E symbol \in SetSymbols : CallEnable(symbol)
  \/ \E symbol \in SetSymbols : CallDisable(symbol)

SpecSignal == Init /\ [][NextSignal]_vars

\* the snapshots of the windows, and no snapshot
SnapshotsNow == {AggGetStats(states, s) : s \in Symbols}

\* C19: shouldAlert(symbol, stats) is true exactly when stats is not null, the
\* symbol has a config, the config is enabled, totalVolume >= minVolumeUSD,
\* dominance >= minDominance, |priceChange| >= minPriceChange, and the dominant
\* side does not disagree with the sign of priceChange.
C19_ShouldAlertReference ==
  \A symbol \in AllSymbols : \A stats \in SnapshotsNow :
    ShouldAlert(runtimeConfig, symbol, stats) <=>
      /\ stats # Null
      /\ symbol \in DOMAIN runtimeConfig
      /\ runtimeConfig[symbol].enabled
      /\ ~FracLT(FracOfInt(stats.totalVolume), runtimeConfig[symbol].minVolumeUSD)
      /\ ~FracLT(stats.dominance, runtimeConfig[symbol].minDominance)
      /\ ~FracLT(FracAbs(stats.priceChange), runtimeConfig[symbol].minPriceChange)
      /\ ~(stats.dominantSide = "buy" /\ stats.priceChange.n < 0)
      /\ ~(stats.dominantSide = "sell" /\ stats.priceChange.n > 0)

\* a buy-dominant window that passes every threshold while the price fell
C19_Witness ==
  \E stats \in SnapshotsNow :
    /\ stats # Null
    /\ ShouldAlert(runtimeConfig, "ADAUSDT", [stats EXCEPT !.priceChange.n = -@])
    /\ ~ShouldAlert(runtimeConfig, "ADAUSDT", stats)
    /\ stats.dominantSide = "buy"
    /\ stats.priceChange.n < 0

(***************************************************************************)
(* The pipeline under the command interface: trade messages interleaved    *)
(* with RuntimeConfig.enable and disable.                                  *)
(***************************************************************************)
MaxToggleMinutes == 4            \* the clock of these runs stops after this many minutes

ToggleMessage(symbol, d, input) ==
  /\ now + d <= MaxToggleMinutes * 60000
  /\ HandleMessage(symbol, d, input)

NextToggle ==
  \/ \E symbol \in FeedSymbols : \E d \in Delays : \E input \in TradeInputs :
       ToggleMessage(symbol, d, input)
  \/ \E symbol \in SetSymbols : CallEnable(symbol)
  \/ \E symbol \in SetSymbols : CallDisable(symbol)

SpecToggle == Init /\ [][NextToggle]_vars

\* C20: while a symbol's config has enabled = false, shouldAlert is false for
\* the symbol whatever the snapshot, and no step takes the symbol from Idle
\* to Waiting.
C20_DisabledStaysIdle ==
  /\ [](\A symbol \in Symbols :
          ~runtimeConfig[symbol].enabled =>
            \A stats \in SnapshotsNow : ~ShouldAlert(runtimeConfig, symbol, stats))
  /\ [][\A symbol \in Symbols :
          (~runtimeConfig[symbol].enabled /\ ~IsWaiting(waitingSymbols, symbol))
            => ~IsWaiting(waitingSymbols', symbol)]_vars

\* a message that would have made the symbol a candidate, had it been enabled
C20_Witness ==
  /\ ev.op = "message"
  /\ ~runtimeConfig[ev.symbol].enabled
  /\ ev.check = Null
  /\ ~IsWaiting(waitingSymbols, ev.symbol)
  /\ ShouldAlert([runtimeConfig EXCEPT ![ev.symbol].enabled = TRUE], ev.symbol,
                 AggGetStats(states, ev.symbol))

\* C29: when the message of a waiting symbol is confirmed and canAlert passes
\* for the live stats, that same step calls sendAlert once, stamps the
\* cooldown of the live side with the time of the step, deletes the
\* WaitingState and resets the window: afterwards the symbol is idle, retains
\* no trade and getStats is null.
C29_FiredAlertTransition ==
  [][\A s \in Symbols :
       (/\ ev'.op = "message"
        /\ ev'.symbol = s
        /\ IsWaiting(waitingSymbols, s)
        /\ ev'.check # Null
        /\ ev'.check.confirmed
        /\ CanAlert(runtimeConfig, lastAlerts, s, LiveStats(s, ev'.msg), now'))
       => /\ Len(ev'.sends) = 1
          /\ ev'.sends[1].symbol = s
          /\ recorded'[Key(s, LiveStats(s, ev'.msg).dominantSide)] = <<now'>>
          /\ lastAlerts'[Key(s, LiveStats(s, ev'.msg).dominantSide)] = now'
          /\ ~IsWaiting(waitingSymbols', s)
          /\ Retained(states', s) = <<>>
          /\ states'[s].firstPrice = NoPrice
          /\ states'[s].lastPrice = NoPrice
          /\ AggGetStats(states', s) = Null]_vars

C29_Witness ==
  /\ ev.op = "message"
  /\ ev.check # Null
  /\ ev.check.confirmed
  /\ Len(ev.sends) = 1
  /\ recorded[Key(ev.symbol, "buy")] = <<now>>
  /\ AggGetStats(states, ev.symbol) = Null
  /\ ~IsWaiting(waitingSymbols, ev.symbol)

\* C30: after addTrade lastPrice is the price of the trade just added and
\* firstPrice the price of the oldest retained trade; after resetSymbol no
\* trade is retained and both prices are cleared; in every state firstPrice
\* is cleared exactly when no trade is retained.
C30_PriceBookkeeping ==
  /\ ev.op = "addTrade" =>
       /\ states[ev.symbol].lastPrice = <<ev.input.p>>
       /\ states[ev.symbol].firstPrice = <<Retained(states, ev.symbol)[1].price>>
  /\ ev.op = "resetSymbol" =>
       /\ Retained(states, ev.symbol) = <<>>
       /\ states[ev.symbol] # NoState =>
            /\ states[ev.symbol].firstPrice = NoPrice
            /\ states[ev.symbol].lastPrice = NoPrice
  /\ \A symbol \in Symbols :
       states[symbol] # NoState =>
         (states[symbol].firstPrice = NoPrice <=> Retained(states, symbol) = <<>>)

\* the oldest trade was evicted and the next one has another price
C30_Witness ==
  /\ ev.op = "addTrade"
  /\ Len(ev.before) >= 2
  /\ Retained(states, ev.symbol)[1] # ev.before[1]
  /\ Retained(states, ev.symbol)[1].price # ev.before[1].price
  /\ Retained(states, ev.symbol)[1].price # ev.input.p

(***************************************************************************)
(* The command interface on its own: RuntimeConfig.set, enable and disable *)
(* with known and unknown symbols, valid and invalid parameters, and value *)
(* texts that are numbers in and out of range, not numbers, or a number    *)
(* followed by other characters.                                           *)
(***************************************************************************)
ValidParams == {"minVolumeUSD", "minDominance", "minPriceChange", "cooldownMinutes"}

SetParams == ValidParams \cup {"enabled"}

SetTexts ==
  { <<"6", "0">>, <<"4", "9", ".", "5">>, <<"1", "0", "1">>, <<"-", "1">>,
    <<"a", "b", "c">>, <<"6", "0", "x">> }

ConfigFrame ==
  UNCHANGED <<now, states, waitingSymbols, lastAlerts, pendingAlerts, timers,
              lastSent, recorded, sinkCalls, wsVars>>

\* runtimeConfig.set(symbol, param, value)
CommandSet(symbol, param, value) ==
  /\ \E r \in {ConfigSetText(runtimeConfig, symbol, param, value)} :
       /\ runtimeConfig' = r.symbolConfigs
       /\ ev' = [op |-> "set", symbol |-> symbol, param |-> param, value |-> value,
                 threw |-> r.threw,
                 result |-> IF r.threw THEN Null ELSE r.result]
  /\ ConfigFrame

NextConfig ==
  \/ \E symbol \in SetSymbols : \E param \in SetParams : \E value \in SetTexts :
       CommandSet(symbol, param, value)
  \/ \E symbol \in SetSymbols : CallEnable(symbol)
  \/ \E symbol \in SetSymbols : CallDisable(symbol)

SpecConfig == Init /\ [][NextConfig]_vars

\* the whole text is a decimal number: an optional sign, digits with at most
\* one point among them, and nothing else
IsNumericText(text) ==
  LET unsigned == IF text # <<>> /\ text[1] \in {"-", "+"} THEN Tail(text) ELSE text
      points == {i \in DOMAIN unsigned : unsigned[i] = "."}
  IN /\ \E i \in DOMAIN unsigned : IsDigit(unsigned[i])
     /\ \A i \in DOMAIN unsigned : IsDigit(unsigned[i]) \/ unsigned[i] = "."
     /\ Cardinality(points) <= 1

\* C26: set with an unknown symbol, a parameter that is not one of the four, a
\* value that is not a number or a value out of range, and enable or disable
\* of an unknown symbol, throw and leave every config as it was.
C26_InvalidRejected ==
  [][/\ (/\ ev'.op = "set"
         /\ \/ ev'.symbol \notin DOMAIN runtimeConfig
            \/ ev'.param \notin ValidParams
            \/ ~IsNumericText(ev'.value)
            \/ ev'.param = "minDominance" /\ FracLT(ParseFloat(ev'.value), FracOfInt(50))
            \/ ev'.param = "minDominance" /\ FracLT(FracOfInt(100), ParseFloat(ev'.value))
            \/ ev'.param # "minDominance" /\ FracLT(ParseFloat(ev'.value), FracOfInt(0)))
        => (ev'.threw /\ runtimeConfig' = runtimeConfig)
     /\ (ev'.op \in {"enable", "disable"} /\ ev'.symbol \notin DOMAIN runtimeConfig)
        => (ev'.threw /\ runtimeConfig' = runtimeConfig)]_vars

\* C27: every config keeps minVolumeUSD >= 0, 50 <= minDominance <= 100,
\* minPriceChange >= 0, cooldownMinutes >= 0 and a boolean enabled; a set that
\* is accepted changes the named parameter of the named symbol and nothing
\* else, and returns the value it replaced and the value it wrote.
C27_ConfigInRange ==
  /\ [](\A symbol \in DOMAIN runtimeConfig :
          /\ FracGE(runtimeConfig[symbol].minVolumeUSD, FracOfInt(0))
          /\ FracGE(runtimeConfig[symbol].minDominance, FracOfInt(50))
          /\ FracGE(FracOfInt(100), runtimeConfig[symbol].minDominance)
          /\ FracGE(runtimeConfig[symbol].minPriceChange, FracOfInt(0))
          /\ FracGE(runtimeConfig[symbol].cooldownMinutes, FracOfInt(0))
          /\ runtimeConfig[symbol].enabled \in BOOLEAN)
  /\ [][(ev'.op = "set" /\ ~ev'.threw) =>
          /\ DOMAIN runtimeConfig' = DOMAIN runtimeConfig
          /\ \A symbol \in DOMAIN runtimeConfig :
               \A field \in DOMAIN runtimeConfig[symbol] :
                 (symbol # ev'.symbol \/ field # ev'.param)
                   => runtimeConfig'[symbol][field] = runtimeConfig[symbol][field]
          /\ runtimeConfig'[ev'.symbol][ev'.param] = ev'.result.newValue
          /\ ev'.result.oldValue = runtimeConfig[ev'.symbol][ev'.param]
          /\ FracEq(ev'.result.newValue, ParseFloat(ev'.value))]_vars

C27_Witness ==
  /\ ev.op = "set"
  /\ ~ev.threw
  /\ ev.param = "minDominance"
  /\ ev.result.oldValue = Frac(65, 1)
  /\ ev.result.newValue = Frac(60, 1)
  /\ ~runtimeConfig[ev.symbol].enabled
  /\ runtimeConfig[ev.symbol].cooldownMinutes = Frac(495, 10)

(***************************************************************************)
(* MultiWebSocketManager: the connections                                  *)
(*                                                                         *)
(* A symbol's socket is "none" before connectSymbol has run for it, then   *)
(* "connecting", "open" or "closed" (WebSocket.readyState).  A timer keeps *)
(* its delay as data: these runs do not read the clock.  The process is    *)
(* loaded with any of the start configs and reconnect ceilings below.      *)
(***************************************************************************)
StartConfigs ==
  {SYMBOL_CONFIGS, [SYMBOL_CONFIGS EXCEPT !["TAOUSDT"].enabled = FALSE]}

ReconnectCeilings == {2, 13}

InitEnv ==
  \E cfgs \in StartConfigs : \E ceiling \in ReconnectCeilings : StartState(cfgs, ceiling)

\* reconnectSymbol, had it kept one count for all the symbols
ReconnectSymbol_GlobalCount(attempts, tmrs, symbol, ceiling) ==
  IF attempts[symbol] >= ceiling
  THEN [reconnectAttempts |-> attempts, connectTimers |-> tmrs, scheduled |-> {}]
  ELSE [reconnectAttempts |-> [s \in DOMAIN attempts |-> attempts[symbol] + 1],
        connectTimers |-> tmrs \cup {[symbol |-> symbol,
                                      delay |-> RECONNECT_DELAY * (attempts[symbol] + 1)]},
        scheduled |-> {[symbol |-> symbol,
                        delay |-> RECONNECT_DELAY * (attempts[symbol] + 1)]}]

\* reconnectSymbol, had it given up only past the ceiling
ReconnectSymbol_OneMore(attempts, tmrs, symbol, ceiling) ==
  IF attempts[symbol] > ceiling
  THEN [reconnectAttempts |-> attempts, connectTimers |-> tmrs, scheduled |-> {}]
  ELSE [reconnectAttempts |-> [attempts EXCEPT ![symbol] = @ + 1],
        connectTimers |-> tmrs \cup {[symbol |-> symbol,
                                      delay |-> RECONNECT_DELAY * (attempts[symbol] + 1)]},
        scheduled |-> {[symbol |-> symbol,
                        delay |-> RECONNECT_DELAY * (attempts[symbol] + 1)]}]

\* reconnectSymbol(symbol): the counters and the timers it leaves, and the
\* timer it scheduled
ReconnectSymbol(attempts, tmrs, symbol, ceiling) ==
  IF attempts[symbol] >= ceiling
  THEN [reconnectAttempts |-> attempts, connectTimers |-> tmrs, scheduled |-> {}]
  ELSE [reconnectAttempts |-> [attempts EXCEPT ![symbol] = @ + 1],
        connectTimers |-> tmrs \cup {[symbol |-> symbol,
                                      delay |-> RECONNECT_DELAY * (attempts[symbol] + 1)]},
        scheduled |-> {[symbol |-> symbol,
                        delay |-> RECONNECT_DELAY * (attempts[symbol] + 1)]}]

PipelineFrame ==
  UNCHANGED <<now, runtimeConfig, states, waitingSymbols, lastAlerts, pendingAlerts,
              timers, lastSent, recorded, sinkCalls, maxReconnects, symbols, shutdown>>

\* a timer of connectAll or reconnectSymbol fires: connectSymbol(symbol)
FireConnect(timer) ==
  /\ timer \in connectTimers
  /\ connectTimers' = connectTimers \ {timer}
  /\ connections' = [connections EXCEPT ![timer.symbol] = "connecting"]
  /\ ev' = [op |-> "connectSymbol", symbol |-> timer.symbol, delay |-> timer.delay]
  /\ UNCHANGED reconnectAttempts
  /\ PipelineFrame

\* ws.on('open'), had it left the counter as it was
WsOpen_KeepsCount(symbol) ==
  /\ connections[symbol] = "connecting"
  /\ connections' = [connections EXCEPT ![symbol] = "open"]
  /\ ev' = [op |-> "open", symbol |-> symbol, attempts |-> reconnectAttempts[symbol]]
  /\ UNCHANGED <<reconnectAttempts, connectTimers>>
  /\ PipelineFrame

\* ws.on('open')
WsOpen(symbol) ==
  /\ connections[symbol] = "connecting"
  /\ connections' = [connections EXCEPT ![symbol] = "open"]
  /\ reconnectAttempts' = [reconnectAttempts EXCEPT ![symbol] = 0]
  /\ ev' = [op |-> "open", symbol |-> symbol, attempts |-> reconnectAttempts[symbol]]
  /\ UNCHANGED connectTimers
  /\ PipelineFrame

\* ws.on('error'), had it called reconnectSymbol as the close handler does
WsError_Reconnects(symbol) ==
  /\ connections[symbol] \in {"connecting", "open"}
  /\ \E r \in {ReconnectSymbol(reconnectAttempts, connectTimers, symbol, maxReconnects)} :
       /\ reconnectAttempts' = r.reconnectAttempts
       /\ connectTimers' = r.connectTimers
  /\ ev' = [op |-> "error", symbol |-> symbol]
  /\ UNCHANGED connections
  /\ PipelineFrame

\* ws.on('error'): logged
WsError(symbol) ==
  /\ connections[symbol] \in {"connecting", "open"}
  /\ ev' = [op |-> "error", symbol |-> symbol]
  /\ UNCHANGED <<connections, reconnectAttempts, connectTimers>>
  /\ PipelineFrame

\* ws.on('close'), of a socket that failed or that closeAll has closed:
\* reconnectSymbol(symbol)
WsClose(symbol) ==
  /\ connections[symbol] \in {"connecting", "open", "closing"}
  /\ connections' = [connections EXCEPT ![symbol] = "closed"]
  /\ \E r \in {ReconnectSymbol(reconnectAttempts, connectTimers, symbol, maxReconnects)} :
       /\ reconnectAttempts' = r.reconnectAttempts
       /\ connectTimers' = r.connectTimers
       /\ ev' = [op |-> "close", symbol |-> symbol, wasOpen |-> connections[symbol] = "open",
                 scheduled |-> r.scheduled]
  /\ PipelineFrame

NextReconnect ==
  \/ \E timer \in connectTimers : FireConnect(timer)
  \/ \E symbol \in Symbols : WsOpen(symbol)
  \/ \E symbol \in Symbols : WsError(symbol)
  \/ \E symbol \in Symbols : WsClose(symbol)

SpecReconnect == InitEnv /\ [][NextReconnect]_vars

\* the cap of the backoff of LiquidationMonitor.reconnect
RECONNECT_CAP == 60000

Min(a, b) == IF a <= b THEN a ELSE b

\* C21: a reconnect scheduled on close has the delay
\* min(5000 x attemptCount, capDelay), attemptCount being the number of the
\* attempt scheduled, and so never more than capDelay.
C21_BackoffCapped ==
  ev.op = "close" =>
    \A timer \in ev.scheduled :
      /\ timer.delay = Min(RECONNECT_DELAY * reconnectAttempts[ev.symbol], RECONNECT_CAP)
      /\ timer.delay <= RECONNECT_CAP

\* the symbol's socket is closed, the counter is at the ceiling and no timer
\* will connect it again
Abandoned(symbol) ==
  /\ connections[symbol] = "closed"
  /\ reconnectAttempts[symbol] = maxReconnects
  /\ \A timer \in connectTimers : timer.symbol # symbol

\* C22: a symbol's counter, the number of reconnects scheduled since its last
\* open, never passes MAX_RECONNECTS; a close at the ceiling schedules
\* nothing; from then on the symbol stays closed with no timer; and no close
\* touches the alerts.
C22_BoundedRetries ==
  /\ [](\A symbol \in Symbols : reconnectAttempts[symbol] <= maxReconnects)
  /\ [][\A symbol \in Symbols :
          /\ (ev'.op = "close" /\ ev'.symbol = symbol
                /\ reconnectAttempts[symbol] = maxReconnects)
               => (ev'.scheduled = {} /\ Abandoned(symbol)')
          /\ (ev'.op = "close" /\ ev'.symbol = symbol
                /\ reconnectAttempts[symbol] < maxReconnects)
               => /\ reconnectAttempts'[symbol] = reconnectAttempts[symbol] + 1
                  /\ Cardinality(ev'.scheduled) = 1
          /\ reconnectAttempts'[symbol] > reconnectAttempts[symbol]
               => (ev'.op = "close" /\ ev'.symbol = symbol)
          /\ Abandoned(symbol) => Abandoned(symbol)'
          /\ ev'.op = "close" =>
               UNCHANGED <<pendingAlerts, timers, sinkCalls, lastSent>>]_vars

C22_Witness ==
  /\ ev.op = "close"
  /\ ev.scheduled = {}
  /\ Abandoned(ev.symbol)
  /\ maxReconnects = 13
  /\ \E other \in Symbols : connections[other] = "open"

\* C23: an open socket has its symbol's counter at 0, whatever the counter was
\* before the open, and the reconnect scheduled when an open socket closes is
\* the first: its delay is 5000 ms.
C23_OpenResetsCounter ==
  /\ [](\A symbol \in Symbols :
          connections[symbol] = "open" => reconnectAttempts[symbol] = 0)
  /\ [](ev.op = "open" => reconnectAttempts[ev.symbol] = 0)
  /\ []((ev.op = "close" /\ ev.wasOpen) =>
          /\ reconnectAttempts[ev.symbol] = 1
          /\ ev.scheduled = {[symbol |-> ev.symbol, delay |-> RECONNECT_DELAY]})

C23_Witness ==
  /\ ev.op = "open"
  /\ ev.attempts >= 2
  /\ reconnectAttempts[ev.symbol] = 0

(***************************************************************************)
(* The commands /enable and /disable beside the connections.  A timer that *)
(* is due fires and a socket that is connecting opens: the runs are fair   *)
(* to both.                                                                *)
(***************************************************************************)
NextEnable ==
  \/ \E symbol \in AllSymbols : CallEnable(symbol)
  \/ \E symbol \in AllSymbols : CallDisable(symbol)
  \/ \E timer \in connectTimers : FireConnect(timer)
  \/ \E symbol \in Symbols : WsOpen(symbol)
  \/ \E symbol \in Symbols : WsError(symbol)
  \/ \E symbol \in Symbols : WsClose(symbol)

SpecEnable ==
  /\ InitEnv
  /\ [][NextEnable]_vars
  /\ WF_vars(\E timer \in connectTimers : FireConnect(timer))
  /\ WF_vars(\E symbol \in Symbols : WsOpen(symbol))

\* the symbols the manager was created with
StartedSymbols == {symbols[i] : i \in DOMAIN symbols}

\* the symbol has a socket, or a timer that will create one
HasConnection(symbol) ==
  \/ connections[symbol] # "none"
  \/ \E timer \in connectTimers : timer.symbol = symbol

\* C28: once enable(symbol) has succeeded for a configured symbol that was
\* disabled at start, the symbol has, or eventually is given, a feed
\* connection.
C28_EnableConnects ==
  \A symbol \in Symbols :
    [](( /\ symbol \notin StartedSymbols
         /\ ev.op = "enable" /\ ev.symbol = symbol /\ ~ev.threw
         /\ runtimeConfig[symbol].enabled )
        => <>HasConnection(symbol))

(***************************************************************************)
(* The feeds of two symbols: each socket connects, opens, closes and is    *)
(* handed malformed messages while it is open; the trades of these runs    *)
(* are those of FeedSymbols.                                               *)
(***************************************************************************)
FeedInputs ==
  { [p |-> 1000, q |-> 300, m |-> FALSE],
    [p |-> 1010, q |-> 900, m |-> FALSE] }
FeedCeilings == {1}

InitFeed == \E ceiling \in FeedCeilings : StartState(SYMBOL_CONFIGS, ceiling)

\* what ws.on('message') may be handed besides a trade: a text JSON.parse
\* rejects, the text null, and a trade object without its T
MalformedData ==
  { [parses |-> FALSE],
    [parses |-> TRUE, value |-> Null],
    [parses |-> TRUE, value |-> [p |-> 1000, q |-> 300, m |-> FALSE]] }

\* ws.on('message') with a trade, at the time of the previous event
FeedMessage(symbol, input) ==
  /\ connections[symbol] = "open"
  /\ HandleMessage(symbol, 0, input)

\* ws.on('message') with data of MalformedData: JSON.parse throws, or reading
\* trade.p of null throws, and the catch block logs; or the trade is added
\* with timestamp undefined and the handler goes on
MalformedMessage(symbol, data) ==
  /\ connections[symbol] = "open"
  /\ IF ~data.parses \/ data.value = Null
     THEN /\ ev' = [op |-> "malformed", symbol |-> symbol, data |-> data, threw |-> TRUE]
          /\ UNCHANGED <<states, waitingSymbols, lastAlerts, pendingAlerts, timers,
                         lastSent, recorded, sinkCalls>>
     ELSE \E sts \in {AggAddTradeNoTime(states, symbol, data.value.p, data.value.q,
                                        data.value.m)} :
          \E stats \in {AggGetStats(sts, symbol)} :
          \E r \in {Handle(symbol, sts, stats, now)} :
            /\ states' = r.states
            /\ waitingSymbols' = r.waitingSymbols
            /\ lastAlerts' = r.lastAlerts
            /\ pendingAlerts' = r.pendingAlerts
            /\ timers' = r.timers
            /\ ev' = [op |-> "malformed", symbol |-> symbol, data |-> data,
                      threw |-> FALSE]
            /\ lastSent' = SentAfter(r.sends, now)
            /\ recorded' = RecordedAfter(r.records, now)
            /\ sinkCalls' = SinkAfter(r.timers \ timers)
  /\ UNCHANGED <<now, runtimeConfig, wsVars>>

NextFeed ==
  \/ \E symbol \in FeedSymbols : \E input \in FeedInputs : FeedMessage(symbol, input)
  \/ \E symbol \in Symbols : \E data \in MalformedData : MalformedMessage(symbol, data)
  \/ \E timer \in connectTimers : FireConnect(timer)
  \/ \E symbol \in Symbols : WsOpen(symbol)
  \/ \E symbol \in Symbols : WsError(symbol)
  \/ \E symbol \in Symbols : WsClose(symbol)

SpecFeed == InitFeed /\ [][NextFeed]_vars

\* all that is kept for one symbol
OfSymbol(symbol) ==
  [window |-> states[symbol],
   waiting |-> waitingSymbols[symbol],
   cooldown |-> [side \in Sides |->
                   IF Key(symbol, side) \in DOMAIN lastAlerts
                   THEN <<lastAlerts[Key(symbol, side)]>> ELSE <<>>],
   connection |-> connections[symbol],
   attempts |-> reconnectAttempts[symbol],
   connectTimers |-> {timer \in connectTimers : timer.symbol = symbol}]

WindowOf(sts, symbol) == IF sts[symbol] = NoState THEN NewSymbolState ELSE sts[symbol]

\* C25: handling a malformed message leaves the symbol's window, waiting state
\* and cooldown records unchanged, schedules no alert and leaves the
\* connection open.
C25_MalformedDropped ==
  [][ev'.op = "malformed" =>
       /\ WindowOf(states', ev'.symbol) = WindowOf(states, ev'.symbol)
       /\ UNCHANGED <<waitingSymbols, lastAlerts, pendingAlerts, timers>>
       /\ connections'[ev'.symbol] = "open"]_vars

(***************************************************************************)
(* The pipeline with /enable and /disable arriving between the messages    *)
(***************************************************************************)
NextSwitch ==
  \/ \E symbol \in FeedSymbols : \E d \in Delays : \E input \in TradeInputs :
       HandleMessage(symbol, d, input)
  \/ \E symbol \in FeedSymbols : CallEnable(symbol)
  \/ \E symbol \in FeedSymbols : CallDisable(symbol)

SpecSwitch == Init /\ [][NextSwitch]_vars

\* C35: sendAlert is not called for a symbol whose config has enabled = false
\* at that moment, also when the symbol was disabled while it was waiting.
C35_NoAlertWhileDisabled ==
  [][(ev'.op = "message" /\ ev'.sends # <<>>) => runtimeConfig[ev'.symbol].enabled]_vars

(***************************************************************************)
(* The pipeline with pauses of the feed longer than the window             *)
(***************************************************************************)
GateDelays == {0, 30000, 240000}

NextGate ==
  \E symbol \in FeedSymbols : \E d \in GateDelays : \E input \in TradeInputs :
    HandleMessage(symbol, d, input)

SpecGate == Init /\ [][NextGate]_vars

\* C36: a trade message after which the volume of the window is below half of
\* minVolumeUSD only adds the trade to the window: the waiting states and the
\* cooldown records stay as they were, checkExhaustion is not called and no
\* alert is sent or scheduled.
C36_PreGateFrame ==
  [][\A s \in Symbols :
       (ev'.op = "message" /\ ev'.symbol = s /\ ~Qualifies(s, ev'.msg))
       => /\ states' = AggAddTrade(states, s, ev'.msg.T, ev'.msg.p, ev'.msg.q, ev'.msg.m)
          /\ waitingSymbols' = waitingSymbols
          /\ lastAlerts' = lastAlerts
          /\ recorded' = recorded
          /\ ev'.check = Null
          /\ ev'.sends = <<>>
          /\ UNCHANGED <<pendingAlerts, timers>>]_vars

\* a message below the gate was handled for a symbol that is waiting
C36_Witness ==
  /\ ev.op = "message"
  /\ ev.check = Null
  /\ IsWaiting(waitingSymbols, ev.symbol)
  /\ AggGetStats(states, ev.symbol) # Null
  /\ FracLT(FracOfInt(AggGetStats(states, ev.symbol).totalVolume),
            FracMul(runtimeConfig[ev.symbol].minVolumeUSD, Frac(1, 2)))

(***************************************************************************)
(* The connections with the shutdown: SIGINT or SIGTERM calls shutdown(),  *)
(* which calls closeAll() and awaits telegram.sendMessage before           *)
(* process.exit; the events of the sockets and the timers that are due run *)
(* while it waits.                                                         *)
(***************************************************************************)
\* closeAll(): ws.close() on every socket of the map, then connections.clear();
\* the close event of a socket comes later
CloseAll(conns) ==
  [s \in DOMAIN conns |->
     IF conns[s] \in {"connecting", "open"} THEN "closing" ELSE conns[s]]

\* shutdown() up to its await
CallShutdown ==
  /\ shutdown = "running"
  /\ shutdown' = "stopping"
  /\ connections' = CloseAll(connections)
  /\ ev' = [op |-> "shutdown"]
  /\ UNCHANGED <<now, runtimeConfig, states, waitingSymbols, lastAlerts, pendingAlerts,
                 timers, lastSent, recorded, sinkCalls, maxReconnects, symbols,
                 reconnectAttempts, connectTimers>>

\* shutdown() after its await: process.exit(0)
Exit ==
  /\ shutdown = "stopping"
  /\ shutdown' = "exited"
  /\ ev' = [op |-> "exit"]
  /\ UNCHANGED <<now, runtimeConfig, states, waitingSymbols, lastAlerts, pendingAlerts,
                 timers, lastSent, recorded, sinkCalls, maxReconnects, symbols,
                 connections, reconnectAttempts, connectTimers>>

NextShutdown ==
  \/ CallShutdown
  \/ Exit
  \/ shutdown # "exited" /\ \E timer \in connectTimers : FireConnect(timer)
  \/ shutdown # "exited" /\ \E symbol \in Symbols : WsOpen(symbol)
  \/ shutdown # "exited" /\ \E symbol \in Symbols : WsError(symbol)
  \/ shutdown # "exited" /\ \E symbol \in Symbols : WsClose(symbol)

SpecShutdown == InitEnv /\ [][NextShutdown]_vars

\* the timers that will connect symbol
ConnectTimersOf(symbol) == {timer \in connectTimers : timer.symbol = symbol}

\* C38: a symbol has at most one timer outstanding, and none while its socket
\* is connecting or open; connectSymbol runs for a symbol only from such a
\* timer, that of the staggered start when the symbol has had no socket, that
\* of reconnectSymbol when its socket has closed: never while a socket of the
\* symbol is connecting or open.
C38_OneConnectionPerSymbol ==
  /\ [](\A symbol \in Symbols :
          /\ Cardinality(ConnectTimersOf(symbol)) <= 1
          /\ connections[symbol] \in {"connecting", "open", "closing"}
               => ConnectTimersOf(symbol) = {})
  /\ [][\A symbol \in Symbols :
          /\ (ev'.op = "connectSymbol" /\ ev'.symbol = symbol)
               => /\ connections[symbol] \in {"none", "closed"}
                  /\ ConnectTimersOf(symbol) = {[symbol |-> symbol, delay |-> ev'.delay]}
                  /\ ConnectTimersOf(symbol)' = {}
                  /\ connections[symbol] = "none"
                       => \E i \in DOMAIN symbols :
                            symbols[i] = symbol /\ ev'.delay = (i - 1) * 200
                  /\ connections[symbol] = "closed"
                       => ev'.delay = RECONNECT_DELAY * reconnectAttempts[symbol]
          /\ (connections'[symbol] = "connecting" /\ connections[symbol] # "connecting")
               => (ev'.op = "connectSymbol" /\ ev'.symbol = symbol)
          /\ ConnectTimersOf(symbol)' \ ConnectTimersOf(symbol) # {}
               => (ev'.op = "close" /\ ev'.symbol = symbol)]_vars

C38_Witness ==
  /\ ev.op = "connectSymbol"
  /\ ev.delay = 2 * RECONNECT_DELAY
  /\ connections[ev.symbol] = "connecting"
  /\ \E other \in Symbols \ {ev.symbol} : connections[other] = "open"

\* C39: once closeAll() has been called, the close of a socket schedules no
\* reconnect and connectSymbol is not called for any symbol.
C39_TeardownFinal ==
  [][shutdown # "running" =>
       /\ ev'.op = "close" => ev'.scheduled = {}
       /\ ev'.op # "connectSymbol"
       /\ connectTimers' \subseteq connectTimers]_vars

\* C40: whatever the order in which the trades arrive, the timestamps of the
\* trades a window retains after addTrade differ by at most the window
\* duration.
C40_WindowSpan ==
  ev.op = "addTrade" =>
    \A i, j \in DOMAIN Retained(states, ev.symbol) :
      Retained(states, ev.symbol)[i].timestamp - Retained(states, ev.symbol)[j].timestamp
        <= WINDOW_SECONDS * 1000

====
